---- MODULE Spec2Model ----
(***************************************************************************)
(* Model of the notes board: the draggable note card of the web client     *)
(* (web/src/components/NoteCard.tsx, web/src/utils), the notes REST        *)
(* controllers over the Mongoose Note model (controllers/notesController), *)
(* and the role-check middleware (middlewares/authorizeRole).              *)
(*                                                                         *)
(* Each subsystem has its own specification over the shared variable       *)
(* tuple; the variables of the other subsystems stay at their initial      *)
(* values.                                                                 *)
(*   SpecOffset  setNewOffset applied to enumerated inputs                 *)
(*   SpecDrag    pointer events on one note card                           *)
(*   SpecApi     requests to the notes controllers                         *)
(*   SpecClient  the client's note state store over the controllers        *)
(*   SpecAuth    requests through authorizeRole(...roles)                  *)
(*   SpecRoutes  requests through the notes router to the controllers      *)
(*   SpecDash    the two fetches of the dashboard page and its teardown    *)
(*   SpecStats   the dashboard's derived statistics over note contents     *)
(*   SpecCalendar  the dashboard's date counters and 7-day histogram       *)
(*   SpecParse   a note with arbitrary field texts rendered by NoteCard    *)
(*               and parsed by the dashboard                               *)
(***************************************************************************)
EXTENDS Integers, Sequences, FiniteSets, TLC

\* ---------------------------------------------------------------- bounds
\* largest cursor coordinate (clientX, clientY range over 0..MaxCoord)
MaxCoord == 2
\* largest card coordinate kept in the state space
MaxPos == 3
\* number of closures that may be registered on the document at once
MaxListeners == 2
\* number of drag gestures followed
MaxGestures == 2
\* magnitude of the offsets and deltas setNewOffset is applied to
MaxOff == 2

\* number of notes ever created (ObjectIds are 1..MaxId, never reused)
MaxId == 2
\* last instant of the store's clock
MaxTime == 1

\* number of roles a route hands to authorizeRole(...roles)
MaxRoles == 2

\* An optional value (an omitted argument, a result not yet there) is a
\* sequence of length 0 or 1.
None == <<>>
Some(v) == <<v>>

VARIABLES
    \* ---- setNewOffset on enumerated inputs
    offCard,        \* card.offsetLeft / card.offsetTop handed to setNewOffset
    offDir,         \* the mouseMoveDir argument, None when omitted
    offOut,         \* the Position returned, None before the call
    \* ---- one NoteCard
    position,       \* useState<Position>: what the card renders at
    mounted,        \* cardRef.current is the card element (FALSE: null)
    cursor,         \* where the pointer is (clientX, clientY of the next event)
    listeners,      \* closures whose mouseMove/mouseUp are on the document
    lastEvent,      \* the last pointer/render event handled
    posFromDrag,    \* position was last set by mouseMove's setPositon
    gesturesDone,   \* drags ended by a pointer-up
    grab,           \* card position minus cursor position at the
                    \* pointer-down of the drag under way; None in Idle
                    \* and once the drag clamped or overlapped another
    updateCalls,    \* persisted update calls the card has issued
    \* ---- the notes collection and the controllers
    store,          \* the Note collection, in natural (insertion) order
    nextId,         \* the ObjectId the next created note gets
    now,            \* the store's clock (Date.now() of timestamps: true)
    req,            \* the request served last: [op, id, body, fail]
    res,            \* its response: [status, notes, message]
    sent,           \* the statuses res.status(..).json(..) was called with
    \* ---- the client's note state store
    localNotes,     \* the note list the client holds
    clientErr,      \* the failure surfaced by the last store operation
    clientOp,       \* the store operation the last step was, or "none"
    \* ---- one request through authorizeRole(...roles)
    roles,          \* the rest arguments the middleware was built with
    userRole,       \* req.user.role, None when the caller has none
    authStatus,     \* the status the middleware answered with, None if none
    nextCalls,      \* how many times the middleware called next()
    authPc,         \* "start" before the middleware ran, "done" after
    \* ---- one request through the notes router
    bearer,         \* the request served last carried a valid bearer token
    reached,        \* the controller that request was handed to, None if none
    \* ---- the dashboard page
    rawNotes,       \* useState<Note[]>: the notes as fetched
    users,          \* useState<User[]>: the users as fetched
    loadingNotes,   \* useState(true)
    loadingUsers,   \* useState(true)
    errNotes,       \* useState<string | null>, None for null
    errUsers,       \* useState<string | null>, None for null
    search,         \* useState(""): the search text
    dashMounted,    \* the page is mounted (FALSE after teardown)
    usersMounted,   \* `let mounted` of the users effect
    notesFetch,     \* "pending" until getAllNotesDashboard() settles
    usersFetch,     \* "pending" until getAllUsers() settles
    lateSets,       \* the state setters called after teardown
    clock,          \* what new Date() reads, and the local calendar
    \* ---- one note rendered by NoteCard and parsed by the dashboard
    cardNote,       \* the note handed to NoteCard / held in rawNotes
    cardOut,        \* None before NoteCard ran, then "rendered" or "threw"
    dashOut,        \* None before the dashboard parsed it, then the same
    cleanRaw,       \* the argument of cleanBody, None for null / undefined
    cleanOut        \* None before cleanBody ran, then what it returned

offVars  == <<offCard, offDir, offOut>>
dragVars == <<position, mounted, cursor, listeners, lastEvent, posFromDrag,
              gesturesDone, grab, updateCalls>>
dbVars   == <<store, nextId, now>>
apiVars  == <<req, res, sent>>
clientVars == <<localNotes, clientErr, clientOp>>
authVars == <<roles, userRole, authStatus, nextCalls, authPc>>
routeVars == <<bearer, reached>>
dashVars == <<rawNotes, users, loadingNotes, loadingUsers, errNotes, errUsers,
              search, dashMounted, usersMounted, notesFetch, usersFetch,
              lateSets, clock>>
parseVars == <<cardNote, cardOut, dashOut, cleanRaw, cleanOut>>
vars == <<offVars, dragVars, dbVars, apiVars, clientVars, authVars,
          routeVars, dashVars, parseVars>>

\* what the actions of one subsystem leave alone
notOffset == <<dragVars, dbVars, apiVars, clientVars, authVars, routeVars,
               dashVars, parseVars>>
notDrag   == <<offVars, dbVars, apiVars, clientVars, authVars, routeVars,
               dashVars, parseVars>>
notApi    == <<offVars, dragVars, authVars, routeVars, dashVars, parseVars>>
notAuth   == <<offVars, dragVars, dbVars, apiVars, clientVars, routeVars,
               dashVars, parseVars>>
notRoutes == <<offVars, dragVars, clientVars, authVars, dashVars, parseVars>>
notDash   == <<offVars, dragVars, dbVars, apiVars, clientVars, authVars,
               routeVars, parseVars>>
notParse  == <<offVars, dragVars, dbVars, apiVars, clientVars, authVars,
               routeVars, dashVars>>

\* ------------------------------------------------------------ setNewOffset
Pos(px, py) == [x |-> px, y |-> py]

\* a clamp that forgets the top coordinate
setNewOffsetNoClampY(card, mouseMoveDir) ==
    LET dir == IF mouseMoveDir = None THEN Pos(0, 0) ELSE mouseMoveDir[1]
        offsetLeft == card.x - dir.x
        offsetTop  == card.y - dir.y
    IN  Pos(IF offsetLeft < 0 THEN 0 ELSE offsetLeft, offsetTop)

\* utils.setNewOffset(card, mouseMoveDir = {x: 0, y: 0})
setNewOffset(card, mouseMoveDir) ==
    LET dir == IF mouseMoveDir = None THEN Pos(0, 0) ELSE mouseMoveDir[1]
        offsetLeft == card.x - dir.x
        offsetTop  == card.y - dir.y
    IN  Pos(IF offsetLeft < 0 THEN 0 ELSE offsetLeft,
            IF offsetTop < 0 THEN 0 ELSE offsetTop)

Offsets == {Pos(px, py) : px \in -MaxOff..MaxOff, py \in -MaxOff..MaxOff}
Deltas  == {Some(d) : d \in Offsets} \cup {None}

\* no call is being followed
OffsetRest ==
    /\ offCard = Pos(0, 0)
    /\ offDir = None
    /\ offOut = None

OffsetInit ==
    /\ offCard \in Offsets
    /\ offDir \in Deltas
    /\ offOut = None

\* a caller applies setNewOffset to the card and the delta
CallSetNewOffset ==
    /\ offOut = None
    /\ offOut' = Some(setNewOffset(offCard, offDir))
    /\ UNCHANGED <<offCard, offDir>>
    /\ UNCHANGED notOffset

\* the next call, on another card offset and delta
NextOffsetInput ==
    /\ offOut # None
    /\ offCard' \in Offsets
    /\ offDir' \in Deltas
    /\ offOut' = None
    /\ UNCHANGED notOffset

\* ---------------------------------------------------------------- NoteCard
Coords == 0..MaxCoord
Cursors == {Pos(px, py) : px \in Coords, py \in Coords}

\* A closure is one render's {mouseStartPos, mouseMove, mouseUp}; cur marks
\* the closure of the render that is currently on screen (the one whose
\* mouseDown the header's onMouseDown is bound to).
Closure(start, cur) == [start |-> start, cur |-> cur]

Dragging == listeners # <<>>
Idle == listeners = <<>>

HasCur(ls) == \E i \in 1..Len(ls) : ls[i].cur

\* a render creates new closures: none of the registered ones is current
Stale(ls) == [i \in 1..Len(ls) |-> Closure(ls[i].start, FALSE)]

\* no card is being followed
DragRest ==
    /\ position = Pos(0, 0)
    /\ mounted = FALSE
    /\ cursor = Pos(0, 0)
    /\ listeners = <<>>
    /\ lastEvent = "init"
    /\ posFromDrag = FALSE
    /\ gesturesDone = 0
    /\ grab = None
    /\ updateCalls = <<>>

DragInit ==
    /\ position \in {Pos(px, py) : px \in {-1, 0, 1}, py \in {0, 1}}
    /\ mounted = TRUE
    /\ cursor = Pos(0, 0)
    /\ listeners = <<>>
    /\ lastEvent = "init"
    /\ posFromDrag = FALSE
    /\ gesturesDone = 0
    /\ grab = None
    /\ updateCalls = <<>>

\* mouseDown of the current render: records the cursor in its mouseStartPos
\* and registers its mouseMove and mouseUp on the document (registering
\* the same function twice keeps one registration)
mouseDown(ls, e) ==
    IF HasCur(ls)
    THEN [i \in 1..Len(ls) |->
            IF ls[i].cur THEN Closure(e, TRUE) ELSE ls[i]]
    ELSE Append(ls, Closure(e, TRUE))

\* mouseMove without its step 2: mouseStartPos stays where the pointer
\* went down
RECURSIVE mouseMoveKeepsStart(_, _, _, _, _)
mouseMoveKeepsStart(ls, i, pos, e, hasCard) ==
    IF i > Len(ls) THEN [ls |-> ls, pos |-> pos]
    ELSE LET mouseMoveDir == Pos(ls[i].start.x - e.x, ls[i].start.y - e.y)
         IN  IF ~hasCard
             THEN mouseMoveKeepsStart(ls, i + 1, pos, e, hasCard)
             ELSE mouseMoveKeepsStart(ls, i + 1,
                                      setNewOffset(pos, Some(mouseMoveDir)),
                                      e, hasCard)

\* mouseMove of every registered closure, in registration order, on the
\* event position e; the card offset each one reads is the position the
\* previous one set
RECURSIVE mouseMove(_, _, _, _, _)
mouseMove(ls, i, pos, e, hasCard) ==
    IF i > Len(ls) THEN [ls |-> ls, pos |-> pos]
    ELSE LET mouseMoveDir == Pos(ls[i].start.x - e.x, ls[i].start.y - e.y)
             moved == [ls EXCEPT ![i].start = e]
         IN  IF ~hasCard
             THEN mouseMove(moved, i + 1, pos, e, hasCard)
             ELSE mouseMove(moved, i + 1, setNewOffset(pos, Some(mouseMoveDir)),
                            e, hasCard)

\* setNewOffset replaced a negative coordinate by 0 in one of the calls
\* the move to e makes
RECURSIVE clamps(_, _, _, _)
clamps(ls, i, pos, e) ==
    IF i > Len(ls) THEN FALSE
    ELSE LET mouseMoveDir == Pos(ls[i].start.x - e.x, ls[i].start.y - e.y)
         IN  \/ pos.x - mouseMoveDir.x < 0
             \/ pos.y - mouseMoveDir.y < 0
             \/ clamps(ls, i + 1, setNewOffset(pos, Some(mouseMoveDir)), e)

\* where the card is relative to the cursor
Grab(pos, cur) == Pos(pos.x - cur.x, pos.y - cur.y)

\* a release handler that removes nothing
mouseUpRemovesNothing(c) == FALSE

\* a release handler that can only drop the listeners of the current render
mouseUpCurrentOnly(c) == c.cur

\* mouseUp of closure c removes c's own mouseMove and mouseUp
mouseUp(c) == TRUE

\* pointer-down on the card header
MouseDown ==
    /\ mounted
    /\ gesturesDone < MaxGestures
    /\ Len(mouseDown(listeners, cursor)) <= MaxListeners
    /\ listeners' = mouseDown(listeners, cursor)
    /\ lastEvent' = "down"
    /\ grab' = IF Idle THEN Some(Grab(position, cursor)) ELSE None
    /\ UNCHANGED <<position, mounted, cursor, posFromDrag, gesturesDone,
                   updateCalls>>
    /\ UNCHANGED notDrag

\* the pointer moves to e; the document dispatches mousemove
MouseMove ==
    \E e \in Cursors :
        LET r == mouseMove(listeners, 1, position, e, mounted)
            set == Dragging /\ mounted
        IN  /\ e # cursor
            /\ r.pos.x <= MaxPos /\ r.pos.y <= MaxPos
            /\ cursor' = e
            /\ position' = r.pos
            /\ listeners' = IF set THEN Stale(r.ls) ELSE r.ls
            /\ posFromDrag' = (posFromDrag \/ set)
            /\ lastEvent' = "move"
            /\ grab' = IF set /\ clamps(listeners, 1, position, e)
                       THEN None ELSE grab
            /\ UNCHANGED <<mounted, gesturesDone, updateCalls>>
            /\ UNCHANGED notDrag

\* pointer-up anywhere; the document dispatches mouseup
MouseUp ==
    /\ listeners' = SelectSeq(listeners, LAMBDA c : ~mouseUp(c))
    /\ gesturesDone' = IF Dragging THEN gesturesDone + 1 ELSE gesturesDone
    /\ lastEvent' = "up"
    /\ grab' = IF listeners' = <<>> THEN None ELSE grab
    /\ UNCHANGED <<position, mounted, cursor, posFromDrag, updateCalls>>
    /\ UNCHANGED notDrag

\* the card re-renders for a reason of its parent
Rerender ==
    /\ mounted
    /\ HasCur(listeners)
    /\ listeners' = Stale(listeners)
    /\ lastEvent' = "render"
    /\ UNCHANGED <<position, mounted, cursor, posFromDrag, gesturesDone,
                   grab, updateCalls>>
    /\ UNCHANGED notDrag

\* the card leaves the page; nothing removes its document listeners
Unmount ==
    /\ mounted
    /\ mounted' = FALSE
    /\ lastEvent' = "unmount"
    /\ grab' = None
    /\ UNCHANGED <<position, cursor, listeners, posFromDrag, gesturesDone,
                   updateCalls>>
    /\ UNCHANGED notDrag

\* ------------------------------------------------------ models/Note.js
Fields == {"body", "colors", "position"}
BodyVals  == {"b1", "b2"}
ColorVals == {"c1"}
PosVals   == {"p1"}
ValsOf(f) == IF f = "body" THEN BodyVals
             ELSE IF f = "colors" THEN ColorVals ELSE PosVals

Ids == 1..MaxId
Times == 0..MaxTime

\* a JSON request body carrying any subset of the three note fields
Patches ==
    {p \in UNION {[d -> BodyVals \cup ColorVals \cup PosVals] : d \in SUBSET Fields} :
        \A f \in DOMAIN p : p[f] \in ValsOf(f)}

\* the request body {}; when the store call throws, the handler answers
\* without having looked at the body, so one body stands for all
NoFields == [f \in {} |-> "b1"]

\* a stored document: the schema's three required strings, _id, and the
\* createdAt / updatedAt of {timestamps: true}
Note(id, body, colors, pos, createdAt, updatedAt) ==
    [id |-> id, body |-> body, colors |-> colors, position |-> pos,
     createdAt |-> createdAt, updatedAt |-> updatedAt]

HasId(st, id) == \E i \in 1..Len(st) : st[i].id = id
IndexOf(st, id) == CHOOSE i \in 1..Len(st) : st[i].id = id

\* Note.find()
find(st) == st

\* Note.findOne({_id}): the document, or null
findOne(st, id) == IF HasId(st, id) THEN Some(st[IndexOf(st, id)]) ELSE None

\* Note.create(doc): validation rejects a missing required field
createValid(doc) == Fields \subseteq DOMAIN doc
create(st, id, t, doc) ==
    Append(st, Note(id, doc["body"], doc["colors"], doc["position"], t, t))

\* the document after the update: the patched paths, and updatedAt
applyUpdate(n, t, patch) ==
    [f \in DOMAIN n |->
        IF f \in DOMAIN patch THEN patch[f]
        ELSE IF f = "updatedAt" THEN t ELSE n[f]]

\* Note.findOneAndUpdate({_id}, patch, {new: true}) on the collection
findOneAndUpdate(st, id, t, patch) ==
    [i \in 1..Len(st) |->
        IF st[i].id = id THEN applyUpdate(st[i], t, patch) ELSE st[i]]

\* Note.findOneAndDelete({_id}) on the collection
findOneAndDelete(st, id) == SelectSeq(st, LAMBDA n : n.id # id)

\* ------------------------------------------ controllers/notesController.js
Resp(status, notes, message) ==
    [status |-> status, notes |-> notes, message |-> message]
ServerError == Resp(500, <<>>, "Server error")
NotFound == Resp(404, <<>>, "Note not found")

\* Every controller takes the collection and whether the store call throws
\* (connection lost, a malformed _id that fails the ObjectId cast, ...),
\* and gives the collection afterwards and the response sent.
Out(st, r) == [store |-> st, res |-> r, sent |-> <<r.status>>]
\* no response at all
Unanswered == Resp(0, <<>>, "")

\* a list that drops the document inserted last
getAllNotesDropLast(st, fail) ==
    IF fail THEN Out(st, ServerError)
    ELSE Out(st, Resp(200, SubSeq(st, 1, Len(st) - 1), ""))

getAllNotes(st, fail) ==
    IF fail THEN Out(st, ServerError)
    ELSE Out(st, Resp(200, find(st), ""))

getAllNotesOfUser(st, fail) ==
    IF fail THEN Out(st, ServerError)
    ELSE Out(st, Resp(200, find(st), ""))

\* a lookup that forgets the null check
getNoteByIdNoNullCheck(st, id, fail) ==
    IF fail THEN Out(st, ServerError)
    ELSE Out(st, Resp(200, findOne(st, id), ""))

\* a lookup whose 404 branch does not return: the 200 is attempted after
\* the 404, throws as the headers are sent, and so is the 500 of the catch
getNoteByIdNoReturn(st, id, fail) ==
    IF fail THEN Out(st, ServerError)
    ELSE IF findOne(st, id) = None
    THEN [store |-> st, res |-> NotFound, sent |-> <<404, 200, 500>>]
    ELSE Out(st, Resp(200, findOne(st, id), ""))

getNoteById(st, id, fail) ==
    IF fail THEN Out(st, ServerError)
    ELSE IF findOne(st, id) = None THEN Out(st, NotFound)
    ELSE Out(st, Resp(200, findOne(st, id), ""))

\* a create without the catch block: a throwing store call leaves the
\* request unanswered
addNoteNoCatch(st, id, t, body, fail) ==
    IF fail \/ ~createValid(body)
    THEN [store |-> st, res |-> Unanswered, sent |-> <<>>]
    ELSE LET st2 == create(st, id, t, body)
         IN  Out(st2, Resp(201, <<st2[Len(st2)]>>, ""))

addNote(st, id, t, body, fail) ==
    IF fail \/ ~createValid(body) THEN Out(st, ServerError)
    ELSE LET st2 == create(st, id, t, body)
         IN  Out(st2, Resp(201, <<st2[Len(st2)]>>, ""))

\* an update that writes the whole request over the document: fields the
\* patch leaves out fall back to the first value of their kind
updateNoteByIdOverwrite(st, id, t, patch, fail) ==
    IF fail THEN Out(st, ServerError)
    ELSE IF ~HasId(st, id) THEN Out(st, NotFound)
    ELSE LET full == [f \in Fields |->
                        IF f \in DOMAIN patch THEN patch[f]
                        ELSE IF f = "body" THEN "b1"
                        ELSE IF f = "colors" THEN "c1" ELSE "p1"]
             st2 == findOneAndUpdate(st, id, t, full)
         IN  Out(st2, Resp(200, findOne(st2, id), ""))

updateNoteById(st, id, t, patch, fail) ==
    IF fail THEN Out(st, ServerError)
    ELSE IF ~HasId(st, id) THEN Out(st, NotFound)
    ELSE LET st2 == findOneAndUpdate(st, id, t, patch)
         IN  Out(st2, Resp(200, findOne(st2, id), ""))

\* a delete that forgets the null check
deleteNoteByIdNoNullCheck(st, id, fail) ==
    IF fail THEN Out(st, ServerError)
    ELSE Out(findOneAndDelete(st, id),
             Resp(200, <<>>, "Note deleted successfully"))

\* a delete whose failure comes after the document was removed
deleteNoteByIdFailsLate(st, id, fail) ==
    IF fail THEN Out(findOneAndDelete(st, id), ServerError)
    ELSE IF ~HasId(st, id) THEN Out(st, NotFound)
    ELSE Out(findOneAndDelete(st, id),
             Resp(200, <<>>, "Note deleted successfully"))

\* a delete that answers but leaves the document in the collection
deleteNoteByIdKeeps(st, id, fail) ==
    IF fail THEN Out(st, ServerError)
    ELSE IF ~HasId(st, id) THEN Out(st, NotFound)
    ELSE Out(st, Resp(200, <<>>, "Note deleted successfully"))

deleteNoteById(st, id, fail) ==
    IF fail THEN Out(st, ServerError)
    ELSE IF ~HasId(st, id) THEN Out(st, NotFound)
    ELSE Out(findOneAndDelete(st, id),
             Resp(200, <<>>, "Note deleted successfully"))

\* ------------------------------------------------------- requests served
\* op: the handler; id: req.params.id (0 when the route has none); body:
\* req.body; fail: whether the store call of the handler threw
Req(op, id, body, fail) == [op |-> op, id |-> id, body |-> body, fail |-> fail]
DbRest ==
    /\ store = <<>>
    /\ nextId = 1
    /\ now = 0

ApiRest ==
    /\ req = Req("none", 0, NoFields, FALSE)
    /\ res = Unanswered
    /\ sent = <<>>

ApiInit == DbRest /\ ApiRest

\* GET /api/notes on the dashboard router
ServeGetAllNotes(fail) ==
    LET r == getAllNotes(store, fail)
    IN  /\ req' = Req("list", 0, NoFields, fail)
        /\ res' = r.res
        /\ sent' = r.sent
        /\ store' = r.store
        /\ UNCHANGED <<nextId, now>>
        /\ UNCHANGED notApi

\* GET /api/notes on the notes router
ServeGetAllNotesOfUser(fail) ==
    LET r == getAllNotesOfUser(store, fail)
    IN  /\ req' = Req("listOfUser", 0, NoFields, fail)
        /\ res' = r.res
        /\ sent' = r.sent
        /\ store' = r.store
        /\ UNCHANGED <<nextId, now>>
        /\ UNCHANGED notApi

\* GET /api/notes/:id
ServeGetNoteById(id, fail) ==
    LET r == getNoteById(store, id, fail)
    IN  /\ req' = Req("get", id, NoFields, fail)
        /\ res' = r.res
        /\ sent' = r.sent
        /\ store' = r.store
        /\ UNCHANGED <<nextId, now>>
        /\ UNCHANGED notApi

\* POST /api/notes
ServeAddNote(body, fail) ==
    LET r == addNote(store, nextId, now, body, fail)
    IN  /\ nextId <= MaxId
        /\ req' = Req("add", 0, body, fail)
        /\ res' = r.res
        /\ sent' = r.sent
        /\ store' = r.store
        /\ nextId' = IF r.res.status = 201 THEN nextId + 1 ELSE nextId
        /\ UNCHANGED now
        /\ UNCHANGED notApi

\* PUT /api/notes/:id
ServeUpdateNoteById(id, patch, fail) ==
    LET r == updateNoteById(store, id, now, patch, fail)
    IN  /\ req' = Req("update", id, patch, fail)
        /\ res' = r.res
        /\ sent' = r.sent
        /\ store' = r.store
        /\ UNCHANGED <<nextId, now>>
        /\ UNCHANGED notApi

\* DELETE /api/notes/:id
ServeDeleteNoteById(id, fail) ==
    LET r == deleteNoteById(store, id, fail)
    IN  /\ req' = Req("delete", id, NoFields, fail)
        /\ res' = r.res
        /\ sent' = r.sent
        /\ store' = r.store
        /\ UNCHANGED <<nextId, now>>
        /\ UNCHANGED notApi

\* time passes between requests
Tick ==
    /\ now < MaxTime
    /\ now' = now + 1
    /\ UNCHANGED <<store, nextId, req, res, sent>>
    /\ UNCHANGED clientVars
    /\ UNCHANGED notApi

\* a request that reaches the handler from any HTTP client
ReqGetAllNotes ==
    \E fail \in BOOLEAN : ServeGetAllNotes(fail) /\ UNCHANGED clientVars
ReqGetAllNotesOfUser ==
    \E fail \in BOOLEAN : ServeGetAllNotesOfUser(fail) /\ UNCHANGED clientVars
ReqGetNoteById(id, fail) == ServeGetNoteById(id, fail) /\ UNCHANGED clientVars
ReqAddNote(body, fail) == ServeAddNote(body, fail) /\ UNCHANGED clientVars
ReqUpdateNoteById(id, patch, fail) ==
    ServeUpdateNoteById(id, patch, fail) /\ UNCHANGED clientVars
ReqDeleteNoteById(id, fail) ==
    ServeDeleteNoteById(id, fail) /\ UNCHANGED clientVars

\* ------------------------------------------------------ the notes router
\* the handlers notesRouter hands a request to, in order: method and
\* whether the path has an :id; authenticateToken is on no route
notesRouter(method, hasId) ==
    CASE method = "GET" /\ ~hasId -> <<"getAllNotesOfUser">>
      [] method = "GET" /\ hasId -> <<"getNoteById">>
      [] method = "POST" /\ ~hasId ->
            <<"createNoteValidator", "validatorMiddleware", "addNote">>
      [] method = "PUT" /\ hasId ->
            <<"updateNoteValidator", "validatorMiddleware", "updateNoteById">>
      [] method = "DELETE" /\ hasId -> <<"deleteNoteById">>
      [] OTHER -> <<>>

\* the validators of a route let the request through (valid) or answer 400
validatorMiddleware(chain, valid) == valid \/ Len(chain) = 1

RouteRest ==
    /\ bearer = FALSE
    /\ reached = None

\* one request to /api/notes: token says whether it carries a valid bearer
\* token, valid is the validators' verdict, fail whether the store call
\* of the controller throws
Route(method, id, body, token, valid, fail) ==
    LET chain == notesRouter(method, id # 0)
        h == chain[Len(chain)]
        r == CASE h = "getAllNotesOfUser" -> getAllNotesOfUser(store, fail)
               [] h = "getNoteById" -> getNoteById(store, id, fail)
               [] h = "addNote" -> addNote(store, nextId, now, body, fail)
               [] h = "updateNoteById" ->
                      updateNoteById(store, id, now, body, fail)
               [] h = "deleteNoteById" -> deleteNoteById(store, id, fail)
        op == CASE h = "getAllNotesOfUser" -> "listOfUser"
                [] h = "getNoteById" -> "get"
                [] h = "addNote" -> "add"
                [] h = "updateNoteById" -> "update"
                [] h = "deleteNoteById" -> "delete"
    IN  /\ chain # <<>>
        /\ h = "addNote" => nextId <= MaxId
        /\ bearer' = token
        /\ IF validatorMiddleware(chain, valid)
           THEN /\ reached' = Some(h)
                /\ req' = Req(op, id, body, fail)
                /\ res' = r.res
                /\ sent' = r.sent
                /\ store' = r.store
                /\ nextId' = IF r.res.status = 201 THEN nextId + 1
                                                   ELSE nextId
           ELSE /\ reached' = None
                /\ req' = Req("invalid", id, body, fail)
                /\ res' = Resp(400, <<>>, "")
                /\ sent' = <<400>>
                /\ UNCHANGED <<store, nextId>>
        /\ UNCHANGED now
        /\ UNCHANGED notRoutes

\* ------------------------------------------------- the note state store
\* The client's store (contexts/NotesContext and the api module it calls):
\* each operation makes its request and folds the answer into localNotes.
ClientRest ==
    /\ localNotes = <<>>
    /\ clientErr = None
    /\ clientOp = "none"

\* the blank note create() asks for
BlankNote == [f \in Fields |-> IF f = "body" THEN "b1"
                               ELSE IF f = "colors" THEN "c1" ELSE "p1"]

\* list(): fetch the notes; on failure keep what is held
ClientList ==
    \E fail \in BOOLEAN :
        /\ ServeGetAllNotesOfUser(fail)
        /\ clientOp' = "list"
        /\ localNotes' = IF res'.status = 200 THEN res'.notes ELSE localNotes
        /\ clientErr' = IF res'.status = 200 THEN None ELSE Some(res'.message)

\* create(): request a blank note; append it on success
ClientCreate ==
    \E fail \in BOOLEAN :
        /\ ServeAddNote(BlankNote, fail)
        /\ clientOp' = "create"
        /\ localNotes' = IF res'.status = 201
                         THEN localNotes \o res'.notes ELSE localNotes
        /\ clientErr' = IF res'.status = 201 THEN None ELSE Some(res'.message)

\* remove(id): delete remotely, then drop the note from the list held; any
\* failure aborts the removal
ClientRemove(id, fail) ==
    /\ ServeDeleteNoteById(id, fail)
    /\ clientOp' = "remove"
    /\ localNotes' = IF res'.status = 200
                     THEN SelectSeq(localNotes, LAMBDA n : n.id # id)
                     ELSE localNotes
    /\ clientErr' = IF res'.status = 200 THEN None ELSE Some(res'.message)

\* another client has a note deleted
OtherClientDeletes(id) ==
    /\ HasId(store, id)
    /\ ServeDeleteNoteById(id, FALSE)
    /\ clientOp' = "none"
    /\ UNCHANGED <<localNotes, clientErr>>

\* -------------------------------------------- properties of the controllers
ById == {"get", "update", "delete"}
Lists == {"list", "listOfUser"}

\* ids of notes that were created and are no longer stored
Deleted == {id \in Ids : id < nextId /\ ~HasId(store, id)}

\* the stored document id after an update with patch, as the claim has it:
\* patched fields replaced, every other field and every other note as before
MergedAsClaimed(id, patch) ==
    LET i == IndexOf(store, id)
    IN  /\ Len(store') = Len(store)
        /\ \A j \in 1..Len(store) : j # i => store'[j] = store[j]
        /\ store'[i].id = id
        /\ store'[i].createdAt = store[i].createdAt
        /\ \A f \in Fields :
              store'[i][f] = IF f \in DOMAIN patch THEN patch[f]
                             ELSE store[i][f]
        /\ res'.notes = <<store'[i]>>

\* the step is a handler serving a request of one of ops (the clock's step
\* is the only one that moves now, and it leaves req as it was)
Serves(ops) == now' = now /\ req'.op \in ops

\* the step serves an update of a stored note and the store call succeeds
UpdatesStored ==
    /\ Serves({"update"})
    /\ ~req'.fail
    /\ HasId(store, req'.id)

\* C6 (as stated): an update of an existing note replaces exactly the
\* fields of the patch, leaves every other field (updatedAt among them) and
\* every other note unchanged, and the response carries the updated note.
C6_UpdateLeavesOtherFields ==
    [][UpdatesStored =>
        /\ MergedAsClaimed(req'.id, req'.body)
        /\ store'[IndexOf(store, req'.id)].updatedAt
              = store[IndexOf(store, req'.id)].updatedAt]_vars

\* C6 (amended): an update of an existing note that the store carries out
\* replaces exactly the fields of the patch, sets updatedAt to the time of
\* the update, leaves every other field and every other note unchanged,
\* and answers 200 with the note as it is after the update.
C6_UpdateMergesPatch ==
    [][UpdatesStored =>
        /\ MergedAsClaimed(req'.id, req'.body)
        /\ store'[IndexOf(store, req'.id)].updatedAt = now
        /\ res'.status = 200]_vars

\* an update answered 200 that changed the body of the second of two notes
\* and kept its position, some time after the note was created
C6_Witness ==
    /\ req.op = "update"
    /\ DOMAIN req.body = {"body"}
    /\ res.status = 200
    /\ Len(store) = 2
    /\ res.notes = <<store[2]>>
    /\ store[2].body = "b2"
    /\ store[2].updatedAt > store[2].createdAt
    /\ store[1].updatedAt = store[1].createdAt

\* C7 (as stated): GET, PUT and DELETE on /api/notes/:id answer 404 when no
\* note has the id and 200 when one has.
C7_ByIdStatus ==
    [][Serves(ById) =>
        res'.status = IF HasId(store, req'.id) THEN 200 ELSE 404]_vars

\* C7 (amended): when the store call of the handler does not throw, GET,
\* PUT and DELETE on /api/notes/:id answer 404 when no note has the id and
\* 200 when one has; when it throws they answer 500.
C7_ByIdStatusUnlessStoreFails ==
    [][Serves(ById) =>
        res'.status = IF req'.fail THEN 500
                      ELSE IF HasId(store, req'.id) THEN 200 ELSE 404]_vars

\* a by-id request answered 404 while another note is stored
C7_Witness ==
    /\ req.op \in ById
    /\ ~req.fail
    /\ res = NotFound
    /\ store # <<>>

\* a create answered 201 appends the note with the body, colors and
\* position of the request, under a new id
CreateStores ==
    (Serves({"add"}) /\ res'.status = 201) =>
        /\ Len(store') = Len(store) + 1
        /\ SubSeq(store', 1, Len(store)) = store
        /\ ~HasId(store, store'[Len(store')].id)
        /\ \A f \in Fields : store'[Len(store')][f] = req'.body[f]
        /\ res'.notes = <<store'[Len(store')]>>

\* a stored note keeps its body, colors and position through every step
\* that is not an update or delete of it answered 200
KeptUntilTouched ==
    \A i \in 1..Len(store) :
        \/ /\ Serves({"update", "delete"})
           /\ req'.id = store[i].id
           /\ res'.status = 200
        \/ \E j \in 1..Len(store') :
              /\ store'[j].id = store[i].id
              /\ \A f \in Fields : store'[j][f] = store[i][f]

\* a list answered 200 holds every stored note, as stored
ListedAsStored ==
    (req.op \in Lists /\ res.status = 200) =>
        \A i \in 1..Len(store) :
            \E j \in 1..Len(res.notes) : res.notes[j] = store[i]

\* C8: after a create answered 201, every list answered afterwards holds
\* the created note with the body, colors and position it was created
\* with, as long as the note has not been updated or deleted: the create
\* stores the note as requested, the note stays as stored until an update
\* or delete of it, and every list answered holds the stored notes.
C8_CreatedNoteListed ==
    /\ []ListedAsStored
    /\ [][CreateStores /\ KeptUntilTouched]_vars

\* a list answered after two creates, holding the second note as it was
\* created and the first as it was updated later
C8_Witness ==
    /\ req.op \in Lists
    /\ res.status = 200
    /\ Len(res.notes) = 2
    /\ res.notes[2].body = "b2"
    /\ res.notes[2].updatedAt = res.notes[2].createdAt
    /\ res.notes[1].updatedAt > res.notes[1].createdAt

\* the note is in no list answered and not stored once it was deleted
AbsentOnceDeleted ==
    \A id \in Deleted : ~HasId(res.notes, id) /\ ~HasId(store, id)

\* a delete answered 200 removes the note and nothing else
DeleteFrame ==
    (Serves({"delete"}) /\ res'.status = 200) =>
        store' = SelectSeq(store, LAMBDA n : n.id # req'.id)

\* C9 (as stated): after a delete answered 200 the note is in no list
\* answered afterwards, a GET of its id answers 404, and the delete left
\* every other stored note as it was.
C9_DeletedGone ==
    /\ []AbsentOnceDeleted
    /\ [][/\ DeleteFrame
          /\ (Serves({"get"}) /\ req'.id \in Deleted) => res'.status = 404]_vars

\* C9 (amended): after a delete answered 200 the note is in no list
\* answered afterwards, a GET of its id never answers 200 (it answers 404,
\* or 500 when the store call throws), and the delete left every other
\* stored note as it was.
C9_DeletedGoneUnlessStoreFails ==
    /\ []AbsentOnceDeleted
    /\ [][/\ DeleteFrame
          /\ (Serves({"get"}) /\ req'.id \in Deleted) =>
                res'.status = IF req'.fail THEN 500 ELSE 404]_vars

\* a GET of a deleted id answered 404 while the other note is still stored
C9_Witness ==
    /\ req.op = "get"
    /\ res = NotFound
    /\ req.id = 1
    /\ Deleted = {1}
    /\ Len(store) = 1
    /\ store[1].id = 2

\* ------------------------------------------ properties of the client store
\* C5: when the remote delete of a note fails (the store call throws, or no
\* note has the id, so that DELETE answers 500 or 404), remove leaves the
\* note list held by the client as it was and surfaces an error.
C5_FailedDeleteKeepsLocal ==
    [][(/\ now' = now
        /\ clientOp' = "remove"
        /\ req'.fail \/ ~HasId(store, req'.id)) =>
        /\ res'.status \in {404, 500}
        /\ localNotes' = localNotes
        /\ clientErr' # None]_vars

\* a remove answered 404 for a note the client still holds, because
\* another client had it deleted
C5_Witness ==
    /\ clientOp = "remove"
    /\ res = NotFound
    /\ HasId(localNotes, req.id)
    /\ clientErr = Some("Note not found")

\* ------------------------------------------------ middlewares/authorizeRole
\* role names: the two of the User model, and one no route allows
RoleNames == {"user", "admin", "guest"}

RoleLists == UNION {[1..n -> RoleNames] : n \in 0..MaxRoles}

\* Array.prototype.includes
includes(list, v) == \E i \in 1..Len(list) : list[i] = v

\* what the middleware did: the status it sent, and its calls of next()
Did(status, calls) == [status |-> status, next |-> calls]

\* a role check without the return: it answers 403 and goes on to next()
authorizeRoleFallsThrough(allowed, role) ==
    IF role = None \/ ~includes(allowed, role[1])
    THEN Did(Some(403), 1)
    ELSE Did(None, 1)

\* authorizeRole(...roles)(req, res, next); a caller without a role has
\* req.user.role undefined, which no list includes
authorizeRole(allowed, role) ==
    IF role = None \/ ~includes(allowed, role[1])
    THEN Did(Some(403), 0)
    ELSE Did(None, 1)

AuthRest ==
    /\ roles = <<>>
    /\ userRole = None
    /\ authStatus = None
    /\ nextCalls = 0
    /\ authPc = "start"

AuthInit ==
    /\ roles \in RoleLists
    /\ userRole \in {Some(r) : r \in RoleNames} \cup {None}
    /\ authStatus = None
    /\ nextCalls = 0
    /\ authPc = "start"

\* the request reaches the middleware
Authorize ==
    LET d == authorizeRole(roles, userRole)
    IN  /\ authPc = "start"
        /\ authStatus' = d.status
        /\ nextCalls' = d.next
        /\ authPc' = "done"
        /\ UNCHANGED <<roles, userRole>>
        /\ UNCHANGED notAuth

\* the next request, of another caller on another route
NextAuthRequest ==
    /\ authPc = "done"
    /\ roles' \in RoleLists
    /\ userRole' \in {Some(r) : r \in RoleNames} \cup {None}
    /\ authStatus' = None
    /\ nextCalls' = 0
    /\ authPc' = "start"
    /\ UNCHANGED notAuth

\* C10: authorizeRole answers 403 without calling next when the caller's
\* role is not among the allowed ones, calls next without answering when
\* it is, and never does both.
C10_RoleCheck ==
    authPc = "done" =>
        /\ (userRole = None \/ ~includes(roles, userRole[1])) =>
                authStatus = Some(403) /\ nextCalls = 0
        /\ (userRole # None /\ includes(roles, userRole[1])) =>
                authStatus = None /\ nextCalls = 1
        /\ ~(authStatus # None /\ nextCalls > 0)

\* an admin-only route refused a caller with the user role
C10_Witness ==
    /\ authPc = "done"
    /\ roles = <<"admin">>
    /\ userRole = Some("user")
    /\ authStatus = Some(403)
    /\ nextCalls = 0

\* ------------------------------------------------- properties of the card
Max(a, b) == IF a >= b THEN a ELSE b

\* C1: setNewOffset returns x' = max(0, offsetLeft - dx) and
\* y' = max(0, offsetTop - dy) for every card offset and delta, and an
\* omitted delta counts as (0, 0).
C1_SetNewOffsetClamp ==
    offOut # None =>
        LET dx == IF offDir = None THEN 0 ELSE offDir[1].x
            dy == IF offDir = None THEN 0 ELSE offDir[1].y
        IN  /\ offOut[1].x = Max(0, offCard.x - dx)
            /\ offOut[1].y = Max(0, offCard.y - dy)

\* a call whose top coordinate was clamped while the left one was not
C1_Witness ==
    /\ offOut # None
    /\ offDir # None
    /\ offCard.y - offDir[1].y < 0
    /\ offCard.x - offDir[1].x > 0
    /\ offOut[1] = Pos(offCard.x - offDir[1].x, 0)

\* C2: every position a drag sets has x >= 0 and y >= 0.
C2_DragPositionNonNegative ==
    posFromDrag => position.x >= 0 /\ position.y >= 0

\* a finished drag that pushed the card against the top-left corner
C2_Witness ==
    /\ posFromDrag
    /\ gesturesDone = 1
    /\ position = Pos(0, 0)
    /\ cursor = Pos(0, 0)

\* C3: every completed drag gesture issues exactly one persisted update
\* call, at pointer-up, carrying the final clamped position, and
\* pointer-moves issue none.
C3_OneUpdatePerDrag ==
    /\ Len(updateCalls) = gesturesDone
    /\ (lastEvent = "up" /\ updateCalls # <<>>
            => updateCalls[Len(updateCalls)] = position)

\* C4: pointer-down on the header takes the card to Dragging with the
\* cursor position recorded, and the next pointer-up, wherever it
\* happens, takes the card back to Idle.
C4_DragStateMachine ==
    /\ lastEvent = "down" =>
            /\ Dragging
            /\ \E i \in 1..Len(listeners) :
                    listeners[i].cur /\ listeners[i].start = cursor
    /\ lastEvent = "up" => Idle

\* a drag that moved the card, re-rendered it, and was then released
C4_Witness ==
    /\ lastEvent = "up"
    /\ Idle
    /\ posFromDrag
    /\ gesturesDone = 2

\* C24: during a drag (a pointer-down in Idle, pointer-moves, re-renders,
\* until the pointer-up) in which no coordinate is clamped, the card is
\* where it was at the pointer-down plus what the cursor moved since:
\* position = position at pointer-down + (cursor - cursor at pointer-down).
C24_DragFollowsCursor ==
    grab # None =>
        position = Pos(grab[1].x + cursor.x, grab[1].y + cursor.y)

\* after a pointer-move of a second drag, the card having been grabbed with
\* the cursor to its right and below it
C24_Witness ==
    /\ grab = Some(Pos(-1, -1))
    /\ lastEvent = "move"
    /\ gesturesDone = 1
    /\ cursor = Pos(2, 1)
    /\ position = Pos(1, 0)

\* C25: pointer-moves change the position only between a pointer-down on
\* the header and the following pointer-up: listeners get registered by a
\* pointer-down only, after a pointer-up none is registered (re-renders
\* during the drag or not), and a pointer-move in Idle leaves the
\* position as it was.
C25_MovesOnlyWhileDragging ==
    /\ [](lastEvent = "up" => listeners = <<>>)
    /\ [][/\ (Idle /\ ~Idle') => lastEvent' = "down"
          /\ lastEvent' = "up" => Idle'
          /\ position' # position => (Dragging /\ lastEvent' = "move")
          /\ (Idle /\ lastEvent' = "move") => position' = position]_vars

\* a pointer-move handled in Idle, after two drags that moved the card and
\* so re-rendered it
C25_Witness ==
    /\ Idle
    /\ lastEvent = "move"
    /\ posFromDrag
    /\ gesturesDone = 2
    /\ mounted
    /\ position # Pos(0, 0)

\* ------------------------------------------------------------------ texts
\* A string is the sequence of its characters.
Q == "\""
Digits == {"0", "1", "2", "3", "4", "5", "6", "7", "8", "9"}
Space == " "

\* String.prototype.trim
RECURSIVE trimStart(_)
trimStart(t) ==
    IF t # <<>> /\ Head(t) = Space THEN trimStart(Tail(t)) ELSE t
RECURSIVE trimEnd(_)
trimEnd(t) ==
    IF t # <<>> /\ t[Len(t)] = Space THEN trimEnd(SubSeq(t, 1, Len(t) - 1))
    ELSE t
trim(t) == trimEnd(trimStart(t))

\* String.prototype.toLowerCase on the letters of the model
lower(c) ==
    CASE c = "R" -> "r"
      [] c = "H" -> "h"
      [] OTHER -> c
toLowerCase(t) == [i \in 1..Len(t) |-> lower(t[i])]

\* String.prototype.includes
strIncludes(t, q) ==
    \E i \in 1..(Len(t) + 1) :
        /\ i + Len(q) - 1 <= Len(t)
        /\ SubSeq(t, i, i + Len(q) - 1) = q

\* the first index of character c in t, 0 when there is none
indexOf(t, c) ==
    IF \E i \in 1..Len(t) : t[i] = c
    THEN CHOOSE i \in 1..Len(t) : t[i] = c /\ \A j \in 1..(i - 1) : t[j] # c
    ELSE 0

\* ------------------------------------------------------------- JSON.parse
\* JSON.parse on the texts of the model: a string whose escapes are \" and
\* \\, a number without sign, fraction or exponent, null, and an object
\* whose members have such values.  A parsed value is [t, s, m]: its type,
\* the characters of a string or number, the members of an object in
\* order.  Thrown(...) is a SyntaxError.
JVal(t, s, m) == [t |-> t, s |-> s, m |-> m]
JNull == JVal("null", <<>>, <<>>)
Thrown == [ok |-> FALSE, v |-> JNull]
Parsed(v) == [ok |-> TRUE, v |-> v]
Backslash == "\\"

\* the characters between the quotes of a string literal, decoded: a
\* backslash takes the quote or backslash after it, a bare quote or a
\* backslash before anything else is a SyntaxError
RECURSIVE unescape(_)
unescape(s) ==
    IF s = <<>> THEN [ok |-> TRUE, s |-> <<>>]
    ELSE IF Head(s) = Backslash
    THEN IF Len(s) >= 2 /\ s[2] \in {Q, Backslash}
         THEN LET rest == unescape(SubSeq(s, 3, Len(s)))
              IN  [ok |-> rest.ok, s |-> <<s[2]>> \o rest.s]
         ELSE [ok |-> FALSE, s |-> <<>>]
    ELSE IF Head(s) = Q THEN [ok |-> FALSE, s |-> <<>>]
    ELSE LET rest == unescape(Tail(s))
         IN  [ok |-> rest.ok, s |-> <<Head(s)>> \o rest.s]

parseScalar(text) ==
    LET w == trim(text)
    IN  IF w = <<"n", "u", "l", "l">> THEN Parsed(JNull)
        ELSE IF /\ w # <<>>
                /\ \A i \in 1..Len(w) : w[i] \in Digits
                /\ (Len(w) = 1 \/ w[1] # "0")
        THEN Parsed(JVal("number", w, <<>>))
        ELSE IF /\ Len(w) >= 2
                /\ w[1] = Q
                /\ w[Len(w)] = Q
                /\ unescape(SubSeq(w, 2, Len(w) - 1)).ok
        THEN Parsed(JVal("string", unescape(SubSeq(w, 2, Len(w) - 1)).s,
                         <<>>))
        ELSE Thrown

\* one member "key": value
parseMember(text) ==
    LET w == trim(text)
        c == indexOf(w, ":")
        k == parseScalar(SubSeq(w, 1, c - 1))
        v == parseScalar(SubSeq(w, c + 1, Len(w)))
    IN  IF c > 0 /\ k.ok /\ k.v.t = "string" /\ v.ok
        THEN [ok |-> TRUE, key |-> k.v.s, val |-> v.v]
        ELSE [ok |-> FALSE, key |-> <<>>, val |-> JNull]

\* the members between the braces, separated by commas
RECURSIVE parseMembers(_)
parseMembers(text) ==
    LET c == indexOf(text, ",")
        first == parseMember(IF c = 0 THEN text ELSE SubSeq(text, 1, c - 1))
        rest == IF c = 0 THEN [ok |-> TRUE, m |-> <<>>]
                ELSE parseMembers(SubSeq(text, c + 1, Len(text)))
    IN  IF first.ok /\ rest.ok
        THEN [ok |-> TRUE,
              m |-> <<[key |-> first.key, val |-> first.val]>> \o rest.m]
        ELSE [ok |-> FALSE, m |-> <<>>]

JSONparse(text) ==
    LET w == trim(text)
        inner == SubSeq(w, 2, Len(w) - 1)
        ms == parseMembers(inner)
    IN  IF Len(w) >= 2 /\ w[1] = "{" /\ w[Len(w)] = "}"
        THEN IF trim(inner) = <<>> THEN Parsed(JVal("object", <<>>, <<>>))
             ELSE IF ms.ok THEN Parsed(JVal("object", <<>>, ms.m))
             ELSE Thrown
        ELSE parseScalar(w)

\* value.name of a parsed value: the last member of that name of an
\* object, undefined (None) when there is none or the value is no object
member(v, name) ==
    LET is == {i \in 1..Len(v.m) : v.m[i].key = name}
    IN  IF is = {} THEN None
        ELSE Some(v.m[CHOOSE i \in is : \A j \in is : j <= i].val)

\* String(value) of a parsed value
String(v) ==
    CASE v.t = "string" -> v.s
      [] v.t = "number" -> v.s
      [] v.t = "null" -> <<"n", "u", "l", "l">>
      [] v.t = "object" ->
            <<"[", "o", "b", "j", "e", "c", "t", " ",
              "O", "b", "j", "e", "c", "t", "]">>

\* utils: safeJsonParse(value, null); None is the null fallback
safeJsonParse(value) ==
    LET p == JSONparse(value)
    IN  IF p.ok /\ p.v.t # "null" THEN Some(p.v) ELSE None

\* value ?? fallback of an optional value
orElse(value, fallback) == IF value = None THEN fallback ELSE value[1]

\* cleanBody decoding a second time what the first JSON.parse returned
cleanBodyTwice(raw) ==
    LET t == trim(orElse(raw, <<>>))
        p == JSONparse(t)
        once == IF ~p.ok THEN t
                ELSE IF p.v.t = "string" THEN trim(p.v.s)
                ELSE IF p.v.t = "null" THEN <<>>
                ELSE trim(String(p.v))
        q == JSONparse(once)
    IN  IF p.ok /\ p.v.t = "string" /\ q.ok /\ q.v.t = "string"
        THEN trim(q.v.s)
        ELSE once

\* utils: cleanBody(raw); raw is None for null or undefined
cleanBody(raw) ==
    LET t == trim(orElse(raw, <<>>))
        p == JSONparse(t)
    IN  IF ~p.ok THEN t
        ELSE IF p.v.t = "string" THEN trim(p.v.s)
        ELSE IF p.v.t = "null" THEN <<>>
        ELSE trim(String(p.v))

\* -------------------------------------------------------------- the clock
\* Instants are counted in units of six hours.  clock is [now, dstDay,
\* shift]: what new Date() reads, and the local calendar, in which every
\* midnight from day dstDay on comes shift units late (the clocks changed
\* the day before; shift = 0: they never change).  Day 0 is a Sunday.
DayMs == 4
days == 7
Clock(t, dstDay, shift) == [now |-> t, dstDay |-> dstDay, shift |-> shift]
Days == 0..(3 * days)

\* local midnight at the start of day k
dayStart(c, k) == k * DayMs + (IF k >= c.dstDay THEN c.shift ELSE 0)
\* the local day an instant lies in
dayOf(c, t) ==
    CHOOSE k \in Days : dayStart(c, k) <= t /\ t < dayStart(c, k + 1)
\* Date.prototype.getDay: 0 Sunday ... 6 Saturday
getDay(c, t) == dayOf(c, t) % 7
\* d.setHours(0, 0, 0, 0)
setHours0(c, t) == dayStart(c, dayOf(c, t))
\* d.setDate(d.getDate() + diff): the same local time, diff days later
setDate(c, t, diff) ==
    dayStart(c, dayOf(c, t) + diff) + (t - dayStart(c, dayOf(c, t)))

\* utils: startOfToday()
startOfToday(c) == setHours0(c, c.now)

\* the week start one day late on a Sunday: diff = 1 - day on every day
startOfWeekMondayNoSunday(c) ==
    LET d == setHours0(c, c.now)
        day == getDay(c, d)
    IN  setDate(c, d, 1 - day)

\* utils: startOfWeekMonday()
startOfWeekMonday(c) ==
    LET d == setHours0(c, c.now)
        day == getDay(c, d)
        diff == (IF day = 0 THEN -6 ELSE 1) - day
    IN  setDate(c, d, diff)

\* a createdAt / updatedAt field: None when missing, else a string that
\* new Date() parses to the instant at, or does not parse
Stamp(t) == Some([parses |-> TRUE, at |-> t])
BadStamp == Some([parses |-> FALSE, at |-> 0])
\* n.createdAt ? new Date(n.createdAt).getTime() : NaN; None is NaN
getTime(stamp) ==
    IF stamp # None /\ stamp[1].parses THEN Some(stamp[1].at) ELSE None

\* Math.round(a / b) for b > 0
round(a, b) == (2 * a + b) \div (2 * b)

\* ------------------------------------------------- the dashboard's notes
RawNote(body, colors, pos, createdAt, updatedAt, user) ==
    [body |-> body, colors |-> colors, position |-> pos,
     createdAt |-> createdAt, updatedAt |-> updatedAt, user_id |-> user]

\* notes: rawNotes.map(...)
parseNote(n) ==
    [body |-> cleanBody(Some(n.body)),
     colors |-> safeJsonParse(n.colors),
     position |-> safeJsonParse(n.position),
     createdAt |-> n.createdAt, updatedAt |-> n.updatedAt,
     user_id |-> n.user_id]
notesOf(raw) == [i \in 1..Len(raw) |-> parseNote(raw[i])]

Unknown == <<"u", "n", "k", "n", "o", "w", "n">>
Id == <<"i", "d">>
\* n.colors?.id ?? fallback; the ids of the model are strings or absent
colorId(n, fallback) ==
    LET id == IF n.colors = None THEN None ELSE member(n.colors[1], Id)
    IN  IF id = None \/ id[1].t = "null" THEN fallback ELSE String(id[1])

\* filteredNotes
filterNotes(ns, text) ==
    LET q == toLowerCase(trim(text))
        hit(n) == \/ strIncludes(toLowerCase(n.body), q)
                  \/ strIncludes(toLowerCase(colorId(n, <<>>)), q)
    IN  IF q = <<>> THEN ns ELSE SelectSeq(ns, hit)

\* ------------------------------------------------------ a JavaScript map
\* A Record<string, number> is the sequence of its entries [k, v] in the
\* order the keys were inserted.
numeric(k) ==
    /\ k # <<>>
    /\ \A i \in 1..Len(k) : k[i] \in Digits
    /\ (Len(k) = 1 \/ k[1] # "0")
digit(ch) == CHOOSE d \in 0..9 : ToString(d) = ch
RECURSIVE number(_)
number(k) ==
    IF k = <<>> THEN 0
    ELSE 10 * number(SubSeq(k, 1, Len(k) - 1)) + digit(k[Len(k)])

hasKey(map, k) == \E i \in 1..Len(map) : map[i].k = k
\* map[k] ?? 0
get(map, k) ==
    IF hasKey(map, k)
    THEN map[CHOOSE i \in 1..Len(map) : map[i].k = k].v
    ELSE 0
\* map[k] = v
put(map, k, v) ==
    IF hasKey(map, k)
    THEN [i \in 1..Len(map) |-> IF map[i].k = k THEN [k |-> k, v |-> v]
                                                ELSE map[i]]
    ELSE Append(map, [k |-> k, v |-> v])

\* the entries of the integer keys idx (indices into map), ascending
RECURSIVE ascending(_, _)
ascending(map, idx) ==
    IF idx = {} THEN <<>>
    ELSE LET i == CHOOSE a \in idx :
                      \A b \in idx : number(map[a].k) <= number(map[b].k)
         IN  <<map[i]>> \o ascending(map, idx \ {i})

\* Object.entries(map): the integer keys in ascending order, then the
\* other keys in insertion order
entries(map) ==
    ascending(map, {i \in 1..Len(map) : numeric(map[i].k)})
        \o SelectSeq(map, LAMBDA e : ~numeric(e.k))

\* --------------------------------------------------- the dashboard's stats
\* the counters of stats before the loop
Stats0 ==
    [total |-> 0, withBody |-> 0, emptyBody |-> 0, createdToday |-> 0,
     createdThisWeek |-> 0, updatedToday |-> 0, colorsCount |-> <<>>,
     topColor |-> None]

Inc(b) == IF b THEN 1 ELSE 0

\* one pass of `for (const n of filteredNotes)` over the counters acc
statsStep(acc, n, today, weekStart) ==
    LET key == colorId(n, Unknown)
        cAt == getTime(n.createdAt)
        uAt == getTime(n.updatedAt)
    IN  [acc EXCEPT
            !.withBody = @ + Inc(Len(n.body) > 0),
            !.emptyBody = @ + Inc(~(Len(n.body) > 0)),
            !.colorsCount = put(@, key, get(@, key) + 1),
            !.createdToday = @ + Inc(cAt # None /\ cAt[1] >= today),
            !.createdThisWeek = @ + Inc(cAt # None /\ cAt[1] >= weekStart),
            !.updatedToday = @ + Inc(uAt # None /\ uAt[1] >= today)]

RECURSIVE statsLoop(_, _, _, _)
statsLoop(acc, ns, today, weekStart) ==
    IF ns = <<>> THEN acc
    ELSE statsLoop(statsStep(acc, Head(ns), today, weekStart), Tail(ns),
                   today, weekStart)

\* `for (const [k, v] of Object.entries(colorsCount))`: best is [top,
\* topColor]
RECURSIVE topLoop(_, _)
topLoop(best, es) ==
    IF es = <<>> THEN best
    ELSE topLoop(IF Head(es).v > best.top
                 THEN [top |-> Head(es).v, topColor |-> Some(Head(es).k)]
                 ELSE best,
                 Tail(es))

\* stats looping over all the notes instead of those the search keeps
statsUnfiltered(filtered, c) ==
    LET counted == statsLoop(Stats0, notesOf(rawNotes), startOfToday(c),
                             startOfWeekMonday(c))
    IN  [counted EXCEPT
            !.total = Len(filtered),
            !.topColor = topLoop([top |-> -1, topColor |-> None],
                                 entries(counted.colorsCount)).topColor]

\* stats that count a note without createdAt as created at the epoch and
\* one without updatedAt as updated now
statsMissingAsDate(filtered, c) ==
    LET dated == [i \in 1..Len(filtered) |->
                    [filtered[i] EXCEPT
                        !.createdAt = IF @ = None THEN Stamp(0) ELSE @,
                        !.updatedAt = IF @ = None THEN Stamp(c.now) ELSE @]]
        counted == statsLoop(Stats0, dated, startOfToday(c),
                             startOfWeekMonday(c))
    IN  [counted EXCEPT
            !.total = Len(filtered),
            !.topColor = topLoop([top |-> -1, topColor |-> None],
                                 entries(counted.colorsCount)).topColor]

\* stats taking the Monday after the week's Monday as the week start
statsWeekAhead(filtered, c) ==
    LET counted == statsLoop(Stats0, filtered, startOfToday(c),
                             setDate(c, startOfWeekMonday(c), 7))
    IN  [counted EXCEPT
            !.total = Len(filtered),
            !.topColor = topLoop([top |-> -1, topColor |-> None],
                                 entries(counted.colorsCount)).topColor]

\* stats
stats(filtered, c) ==
    LET counted == statsLoop(Stats0, filtered, startOfToday(c),
                             startOfWeekMonday(c))
    IN  [counted EXCEPT
            !.total = Len(filtered),
            !.topColor = topLoop([top |-> -1, topColor |-> None],
                                 entries(counted.colorsCount)).topColor]

\* Math.round replaced by Math.floor in the day difference
RECURSIVE createdLineDataFloor(_, _)
createdLineDataFloor(ns, c) ==
    IF ns = <<>> THEN [i \in 1..days |-> 0]
    ELSE LET counts == createdLineDataFloor(SubSeq(ns, 1, Len(ns) - 1), c)
             n == ns[Len(ns)]
             today == setHours0(c, c.now)
             d == getTime(n.createdAt)
             diffDays == (today - setHours0(c, d[1])) \div DayMs
         IN  IF d # None /\ diffDays >= 0 /\ diffDays < days
             THEN [counts EXCEPT ![days - diffDays] = @ + 1]
             ELSE counts

\* createdLineData: counts, its last element today's
RECURSIVE createdLineData(_, _)
createdLineData(ns, c) ==
    IF ns = <<>> THEN [i \in 1..days |-> 0]
    ELSE LET counts == createdLineData(SubSeq(ns, 1, Len(ns) - 1), c)
             n == ns[Len(ns)]
             today == setHours0(c, c.now)
             d == getTime(n.createdAt)
             diffDays == round(today - setHours0(c, d[1]), DayMs)
         IN  IF d # None /\ diffDays >= 0 /\ diffDays < days
             THEN [counts EXCEPT ![days - diffDays] = @ + 1]
             ELSE counts

\* notesCountByUser counting the notes without a user id under the first
\* user id met
RECURSIVE notesCountByUserNoSkip(_)
notesCountByUserNoSkip(ns) ==
    IF ns = <<>> THEN <<>>
    ELSE LET map == notesCountByUserNoSkip(SubSeq(ns, 1, Len(ns) - 1))
             uid == ns[Len(ns)].user_id
             k == IF uid # None THEN uid[1]
                  ELSE IF map # <<>> THEN map[1].k ELSE ""
         IN  IF k = "" THEN map ELSE put(map, k, get(map, k) + 1)

\* notesCountByUser
RECURSIVE notesCountByUser(_)
notesCountByUser(ns) ==
    IF ns = <<>> THEN <<>>
    ELSE LET map == notesCountByUser(SubSeq(ns, 1, Len(ns) - 1))
             uid == ns[Len(ns)].user_id
         IN  IF uid = None THEN map
             ELSE put(map, uid[1], get(map, uid[1]) + 1)

\* filteredUsers
filterUsers(us, text) ==
    LET q == toLowerCase(trim(text))
        hit(u) == \/ strIncludes(toLowerCase(u.email), q)
                  \/ strIncludes(toLowerCase(u.role), q)
    IN  IF q = <<>> THEN us ELSE SelectSeq(us, hit)

\* ------------------------------------------ what the dashboard page shows
notes == notesOf(rawNotes)
filteredNotes == filterNotes(notes, search)
filteredUsers == filterUsers(users, search)
isLoading == loadingNotes \/ loadingUsers
\* the "Loading..." card is rendered
loadingShown == dashMounted /\ isLoading
\* the KPI cards and charts behind the notes fetch alone
statsShownNotesOnly == dashMounted /\ ~loadingNotes /\ errNotes = None
\* the KPI cards and charts are rendered
statsShown == dashMounted /\ ~isLoading /\ errNotes = None
\* the "Some data couldn't load" card is rendered
errorsShown == dashMounted /\ ~isLoading /\ (errNotes # None \/ errUsers # None)

\* the users section with the notes error in its test
usersSectionBehindNotes ==
    IF ~dashMounted THEN "none"
    ELSE IF loadingUsers THEN "loading"
    ELSE IF errUsers # None \/ errNotes # None THEN "unavailable"
    ELSE IF Len(filteredUsers) = 0 THEN "empty"
    ELSE "table"

\* what the users section renders
usersSection ==
    IF ~dashMounted THEN "none"
    ELSE IF loadingUsers THEN "loading"
    ELSE IF errUsers # None THEN "unavailable"
    ELSE IF Len(filteredUsers) = 0 THEN "empty"
    ELSE "table"

\* the histogram computed over the notes the search keeps
createdLineFiltered(raw, text, c) ==
    LET ns == filterNotes(notesOf(raw), text)
    IN  createdLineData(ns, c)
\* the data of the "Created (7 days)" chart, of the notes fetched, the
\* search text and the clock
createdLineOf(raw, text, c) ==
    LET ns == notesOf(raw)
    IN  createdLineData(ns, c)
createdLine == createdLineOf(rawNotes, search, clock)
\* the per-user note counts of the users table, of the notes fetched
countByUserOf(raw) ==
    LET ns == notesOf(raw)
    IN  notesCountByUser(ns)

\* the "Total Notes" cell of the row of user u
totalNotesOf(u) == get(notesCountByUser(notes), u._id)

\* ------------------------------------------------ the dashboard's inputs
\* longest note list fetched when the note contents vary
MaxNotes == 3
\* longest note list fetched when the timestamps vary
MaxDated == 2

BodyHi == <<Q, "h", "i", Q>>
BodyBlank == <<Q, " ", Q>>
BodyPlain == <<"r", "e", "d", " ">>
ColorsRed == <<"{", Q, "i", "d", Q, ":", Q, "r", "e", "d", Q, "}">>
Colors2 == <<"{", Q, "i", "d", Q, ":", Q, "2", Q, "}">>
Colors1 == <<"{", Q, "i", "d", Q, ":", Q, "1", Q, "}">>
ColorsBad == <<"r", "e", "d">>
PosOk == <<"{", Q, "x", Q, ":", "1", ",", Q, "y", Q, ":", "2", "}">>

\* notes that differ in body, color id or owner, without timestamps
ContentNotes ==
    {RawNote(b, ColorsRed, PosOk, None, None, None) :
        b \in {BodyHi, BodyBlank, BodyPlain}}
    \cup {RawNote(BodyHi, c, PosOk, None, None, None) :
            c \in {Colors2, Colors1, ColorsBad}}
    \cup {RawNote(BodyHi, ColorsRed, PosOk, None, None, Some(u)) :
            u \in {"u1", "u2"}}

\* notes that differ in createdAt and updatedAt
DatedNotes ==
    {RawNote(BodyHi, ColorsRed, PosOk, p[1], p[2], None) :
        p \in {<<None, None>>,
               <<BadStamp, BadStamp>>,
               <<Stamp(1), Stamp(6 * DayMs)>>,
               <<Stamp(6 * DayMs), Stamp(12 * DayMs)>>,
               <<Stamp(6 * DayMs + 3), None>>,
               <<Stamp(12 * DayMs), Stamp(12 * DayMs)>>}}

\* notes that differ in body, color id, owner and timestamps
MixedNotes ==
    {RawNote(BodyHi, ColorsRed, PosOk, Stamp(8 * DayMs),
             Stamp(13 * DayMs + 1), Some("u1")),
     RawNote(BodyPlain, Colors2, PosOk, Stamp(10 * DayMs + 1),
             Stamp(11 * DayMs), None),
     RawNote(BodyBlank, ColorsRed, PosOk, BadStamp, Stamp(9 * DayMs + 2),
             Some("u3")),
     RawNote(BodyHi, Colors1, PosOk, Stamp(12 * DayMs), None, Some("u1"))}

ListsOf(pool, n) == UNION {[1..k -> pool] : k \in 0..n}

Searches == {<<>>, <<" ", "R">>, <<"h">>}

User(id, email, role) == [_id |-> id, email |-> email, role |-> role]
UserA == User("u1", <<"r", "@">>, <<"a">>)
UserB == User("u3", <<"h", "@">>, <<"u">>)
\* what getAllUsers() resolves to: an array or something else
Fetched(isArray, items) == [isArray |-> isArray, items |-> items]

\* a Sunday at midnight, the clocks never changing
DefaultClock == Clock(days * DayMs, 0, 0)
\* any time of any day of one week, in a calendar whose clocks change on
\* no day, or go forward or back by one unit on one of two days
Clocks ==
    {Clock(d * DayMs + t, cal[1], cal[2]) :
        d \in days..(2 * days - 1), t \in {0, 2},
        cal \in {<<0, 0>>, <<5, 1>>, <<5, -1>>, <<12, 1>>, <<12, -1>>}}

\* --------------------------------------------------- the dashboard's page
\* the page after its first render and the start of its two effects
DashRest ==
    /\ rawNotes = <<>>
    /\ users = <<>>
    /\ loadingNotes = TRUE
    /\ loadingUsers = TRUE
    /\ errNotes = None
    /\ errUsers = None
    /\ search = <<>>
    /\ dashMounted = TRUE
    /\ usersMounted = TRUE
    /\ notesFetch = "pending"
    /\ usersFetch = "pending"
    /\ lateSets = {}
    /\ clock = DefaultClock

DashInit ==
    /\ rawNotes = <<>>
    /\ users = <<>>
    /\ loadingNotes = TRUE
    /\ loadingUsers = TRUE
    /\ errNotes = None
    /\ errUsers = None
    /\ search = <<>>
    /\ dashMounted = TRUE
    /\ usersMounted = TRUE
    /\ notesFetch = "pending"
    /\ usersFetch = "pending"
    /\ lateSets = {}
    /\ clock \in Clocks

\* a state setter of the page called: after teardown React drops the
\* update, and the call is recorded
Late(setters) == IF dashMounted THEN lateSets ELSE lateSets \cup setters

\* the notes effect: getAllNotesDashboard() resolves to data
NotesFetchResolves(data) ==
    /\ notesFetch = "pending"
    /\ notesFetch' = "settled"
    /\ rawNotes' = IF dashMounted THEN data ELSE rawNotes
    /\ loadingNotes' = IF dashMounted THEN FALSE ELSE loadingNotes
    /\ lateSets' = Late({"setRawNotes", "setLoadingNotes"})
    /\ UNCHANGED <<users, loadingUsers, errNotes, errUsers, search,
                   dashMounted, usersMounted, usersFetch, clock>>
    /\ UNCHANGED notDash

\* the notes effect without its finally block
NotesFetchRejectsNoFinally(message) ==
    /\ notesFetch = "pending"
    /\ notesFetch' = "settled"
    /\ errNotes' = IF ~dashMounted THEN errNotes
                   ELSE IF message # None THEN message
                   ELSE Some("Unknown error occuered")
    /\ lateSets' = Late({"toast.error", "setErrNotes"})
    /\ UNCHANGED <<rawNotes, users, loadingNotes, loadingUsers, errUsers,
                   search, dashMounted, usersMounted, usersFetch, clock>>
    /\ UNCHANGED notDash

\* the notes effect: getAllNotesDashboard() rejects; message is that of
\* the Error thrown, None when what was thrown is no Error
NotesFetchRejects(message) ==
    /\ notesFetch = "pending"
    /\ notesFetch' = "settled"
    /\ errNotes' = IF ~dashMounted THEN errNotes
                   ELSE IF message # None THEN message
                   ELSE Some("Unknown error occuered")
    /\ loadingNotes' = IF dashMounted THEN FALSE ELSE loadingNotes
    /\ lateSets' = Late({"toast.error", "setErrNotes", "setLoadingNotes"})
    /\ UNCHANGED <<rawNotes, users, loadingUsers, errUsers, search,
                   dashMounted, usersMounted, usersFetch, clock>>
    /\ UNCHANGED notDash

\* the users effect: getAllUsers() resolves to data
UsersFetchResolves(data) ==
    /\ usersFetch = "pending"
    /\ usersFetch' = "settled"
    /\ IF ~usersMounted
       THEN UNCHANGED <<users, loadingUsers, lateSets>>
       ELSE /\ users' = IF data.isArray THEN data.items ELSE <<>>
            /\ loadingUsers' = FALSE
            /\ lateSets' = Late({"setUsers", "setLoadingUsers"})
    /\ UNCHANGED <<rawNotes, loadingNotes, errNotes, errUsers, search,
                   dashMounted, usersMounted, notesFetch, clock>>
    /\ UNCHANGED notDash

\* the users effect: getAllUsers() rejects; message is e?.message
UsersFetchRejects(message) ==
    /\ usersFetch = "pending"
    /\ usersFetch' = "settled"
    /\ IF ~usersMounted
       THEN UNCHANGED <<errUsers, loadingUsers, lateSets>>
       ELSE /\ errUsers' = IF message # None THEN message
                           ELSE Some("Failed to load users")
            /\ loadingUsers' = FALSE
            /\ lateSets' = Late({"setErrUsers", "setLoadingUsers"})
    /\ UNCHANGED <<rawNotes, users, loadingNotes, errNotes, search,
                   dashMounted, usersMounted, notesFetch, clock>>
    /\ UNCHANGED notDash

\* the page is torn down: the cleanup of the users effect runs; the notes
\* effect returns no cleanup
DashUnmount ==
    /\ dashMounted
    /\ dashMounted' = FALSE
    /\ usersMounted' = FALSE
    /\ UNCHANGED <<rawNotes, users, loadingNotes, loadingUsers, errNotes,
                   errUsers, search, notesFetch, usersFetch, lateSets, clock>>
    /\ UNCHANGED notDash

\* onChange of the search input
SetSearch(text) ==
    /\ dashMounted
    /\ search # text
    /\ search' = text
    /\ UNCHANGED <<rawNotes, users, loadingNotes, loadingUsers, errNotes,
                   errUsers, dashMounted, usersMounted, notesFetch,
                   usersFetch, lateSets, clock>>
    /\ UNCHANGED notDash

\* ------------------------------------------ one note parsed and rendered
\* field texts: JSON of the expected type, JSON null, and two malformed
BodyTexts == {BodyHi, <<"n", "u", "l", "l">>, BodyPlain, <<Q, "h">>}
ColorsTexts == {ColorsRed, <<"n", "u", "l", "l">>, ColorsBad,
                <<"{", "i", "d", ":", "r", "}">>}
PositionTexts == {PosOk, <<"n", "u", "l", "l">>, <<>>,
                  <<"{", Q, "x", Q, ":", "1", ",", "}">>}
ParseNotes ==
    {RawNote(b, c, p, None, None, None) :
        b \in BodyTexts, c \in ColorsTexts, p \in PositionTexts}

ParseRest ==
    /\ cardNote = RawNote(BodyHi, ColorsRed, PosOk, None, None, None)
    /\ cardOut = None
    /\ dashOut = None
    /\ cleanRaw = None
    /\ cleanOut = None

ParseInit ==
    /\ cardNote \in ParseNotes
    /\ cardOut = None
    /\ dashOut = None
    /\ cleanRaw = None
    /\ cleanOut = None

\* a field of the note is not JSON
malformed(n) ==
    \E f \in {"body", "colors", "position"} : ~JSONparse(n[f]).ok

\* NoteCard({note}): the three JSON.parse calls of its body, then the
\* reads of colors.colorBody, colors.colorHeader, colors.colorText and
\* position.x, position.y of its JSX
NoteCard(n) ==
    LET colors == JSONparse(n.colors)
        body == JSONparse(n.body)
        pos == JSONparse(n.position)
    IN  IF ~colors.ok \/ ~body.ok \/ ~pos.ok THEN "threw"
        ELSE IF colors.v.t = "null" \/ pos.v.t = "null" THEN "threw"
        ELSE "rendered"

\* the dashboard's derivations over the one note
Dashboard(n) ==
    LET ns == notesOf(<<n>>)
        shown == stats(filterNotes(ns, <<>>), DefaultClock)
    IN  IF shown.total = 1 THEN "rendered" ELSE "threw"

\* the notes page renders the note's card
RenderNoteCard ==
    /\ cardOut = None
    /\ cardOut' = Some(NoteCard(cardNote))
    /\ UNCHANGED <<cardNote, dashOut, cleanRaw, cleanOut>>
    /\ UNCHANGED notParse

\* the dashboard page renders with the note in rawNotes
RenderDashboard ==
    /\ dashOut = None
    /\ dashOut' = Some(Dashboard(cardNote))
    /\ UNCHANGED <<cardNote, cardOut, cleanRaw, cleanOut>>
    /\ UNCHANGED notParse

\* ------------------------------------------------------ cleanBody's inputs
\* the text that JSON.parse decodes to the string s
RECURSIVE escape(_)
escape(s) ==
    IF s = <<>> THEN <<>>
    ELSE (IF Head(s) \in {Q, Backslash} THEN <<Backslash, Head(s)>>
          ELSE <<Head(s)>>) \o escape(Tail(s))
Encoded(s) == <<Q>> \o escape(s) \o <<Q>>

\* strings, among them the texts of a number and of null
PlainTexts ==
    {<<>>, <<"h", "i">>, <<" ", "a", " ">>, <<"a", Q, "b">>,
     <<"a", Backslash>>, <<"1">>, <<"n", "u", "l", "l">>}
\* the strings a note body is the encoding of: plain or encoded themselves
Decoded == PlainTexts \cup {Encoded(s) : s \in PlainTexts}
\* texts that are no JSON: an open string, a bare quote inside a string,
\* a backslash before a letter, an open object
BrokenTexts ==
    {<<Q, "h">>, <<Q, "a", Q, "b", Q>>, <<Q, Backslash, "x", Q>>,
     <<"{", "a">>}
CleanTexts ==
    LET cores == Decoded \cup {Encoded(s) : s \in Decoded}
                    \cup BrokenTexts
    IN  {l \o c \o r : l \in {<<>>, <<Space>>}, c \in cores,
                       r \in {<<>>, <<Space>>}}

CleanInit ==
    /\ cardNote = RawNote(BodyHi, ColorsRed, PosOk, None, None, None)
    /\ cardOut = None
    /\ dashOut = None
    /\ cleanRaw \in {None} \cup {Some(t) : t \in CleanTexts}
    /\ cleanOut = None

\* cleanBody(raw) is called
CallCleanBody ==
    /\ cleanOut = None
    /\ cleanOut' = Some(cleanBody(cleanRaw))
    /\ UNCHANGED <<cardNote, cardOut, dashOut, cleanRaw>>
    /\ UNCHANGED notParse

\* ------------------------------------------------------------- the routes
\* C11: the notes endpoints are protected: a request that carries no valid
\* bearer token never reaches a notes controller, so it neither reads nor
\* changes a note.
C11_NotesProtected ==
    /\ reached # None => bearer
    /\ ~bearer => (res.notes = <<>> /\ res.status \notin {200, 201})

\* ---------------------------------------------------------- the dashboard
\* the notes of ns the search keeps: all when the search is blank, else
\* those whose cleaned body or color id contains it, whatever the case
Matching(ns) ==
    LET q == toLowerCase(trim(search))
    IN  {i \in 1..Len(ns) :
            \/ q = <<>>
            \/ strIncludes(toLowerCase(ns[i].body), q)
            \/ strIncludes(toLowerCase(colorId(ns[i], <<>>)), q)}

\* C12: each note that matches the search is counted in exactly one of
\* withBody (its cleaned body is not empty) and emptyBody, so withBody +
\* emptyBody = total, the number of matching notes.
C12_BodyPartition ==
    LET ns == notes
        s == stats(filteredNotes, clock)
        matching == Matching(ns)
    IN  /\ s.total = Cardinality(matching)
        /\ s.withBody = Cardinality({i \in matching : ns[i].body # <<>>})
        /\ s.emptyBody = Cardinality({i \in matching : ns[i].body = <<>>})
        /\ s.withBody + s.emptyBody = s.total

\* three notes fetched, the search keeping two of them: one with a body,
\* one whose body is a blank
C12_Witness ==
    LET s == stats(filteredNotes, clock)
    IN  /\ notesFetch = "settled"
        /\ Len(rawNotes) = 3
        /\ trim(search) # <<>>
        /\ s.total = 2
        /\ s.withBody = 1
        /\ s.emptyBody = 1

\* C13: colorsCount maps each color id ("unknown" for a note without one)
\* to the number of matching notes with that id; topColor is a key with
\* the largest count, and of the keys with that count the one that comes
\* first in the note list.
C13_TopColor ==
    LET fs == filteredNotes
        s == stats(fs, clock)
        n == Len(fs)
        key(i) == colorId(fs[i], Unknown)
        count(k) == Cardinality({i \in 1..n : key(i) = k})
        largest(i) == \A j \in 1..n : count(key(j)) <= count(key(i))
    IN  /\ \A i \in 1..n : get(s.colorsCount, key(i)) = count(key(i))
        /\ \A j \in 1..Len(s.colorsCount) :
              /\ s.colorsCount[j].v > 0
              /\ s.colorsCount[j].v = count(s.colorsCount[j].k)
        /\ n = 0 => s.topColor = None
        /\ n > 0 =>
              s.topColor =
                  Some(key(CHOOSE i \in 1..n :
                              largest(i) /\ \A j \in 1..(i - 1) : ~largest(j)))

\* midnight at the start of the local day of now
Midnight ==
    CHOOSE m \in {dayStart(clock, k) : k \in Days} :
        /\ m <= clock.now
        /\ \A k \in Days : dayStart(clock, k) <= clock.now
                              => dayStart(clock, k) <= m
\* midnight at the start of the last Monday that has begun
MondayMidnight ==
    LET mondays == {dayStart(clock, k) : k \in {d \in Days : d % 7 = 1}}
    IN  CHOOSE m \in mondays :
            /\ m <= clock.now
            /\ \A o \in mondays : o <= clock.now => o <= m
\* the notes of fs whose field parses to an instant at or after t
Since(fs, field, t) ==
    {i \in 1..Len(fs) :
        /\ fs[i][field] # None
        /\ fs[i][field][1].parses
        /\ fs[i][field][1].at >= t}

\* C14: createdToday counts the matching notes whose createdAt parses and
\* is at or after local midnight of today, createdThisWeek those at or
\* after the week start, updatedToday those whose updatedAt parses and is
\* at or after local midnight; a missing or unparsable timestamp adds to
\* none of the counters that use it.
C14_DateCounters ==
    LET fs == filteredNotes
        s == stats(fs, clock)
        midnight == Midnight
    IN  /\ s.createdToday = Cardinality(Since(fs, "createdAt", midnight))
        /\ s.createdThisWeek
              = Cardinality(Since(fs, "createdAt", MondayMidnight))
        /\ s.updatedToday = Cardinality(Since(fs, "updatedAt", midnight))

\* on a Sunday: a note with unparsable timestamps, counted nowhere, and a
\* note created the day before and updated later
C14_Witness ==
    LET s == stats(filteredNotes, clock)
    IN  /\ notesFetch = "settled"
        /\ Len(rawNotes) = 2
        /\ rawNotes[1].createdAt = BadStamp
        /\ rawNotes[1].updatedAt = BadStamp
        /\ getDay(clock, clock.now) = 0
        /\ s.createdToday = 0
        /\ s.createdThisWeek = 1
        /\ s.updatedToday = 1

\* C15: startOfWeekMonday is local midnight of the last Monday at or
\* before today: 6 days before today on a Sunday, weekday - 1 days before
\* today on the other days.
C15_WeekStart ==
    LET today == dayOf(clock, clock.now)
        weekday == today % 7
        back == IF weekday = 0 THEN 6 ELSE weekday - 1
    IN  /\ startOfWeekMonday(clock) = dayStart(clock, today - back)
        /\ startOfWeekMonday(clock) = MondayMidnight
        /\ (today - back) % 7 = 1

\* the statistics computed on a Sunday in a week in which the clocks
\* changed: the week started six days before
C15_Witness ==
    /\ notesFetch = "settled"
    /\ rawNotes # <<>>
    /\ getDay(clock, clock.now) = 0
    /\ clock.shift # 0
    /\ clock.dstDay > dayOf(clock, clock.now) - 6
    /\ clock.dstDay <= dayOf(clock, clock.now)
    /\ startOfWeekMonday(clock) = dayStart(clock, dayOf(clock, clock.now) - 6)

\* the notes of ns whose createdAt parses to an instant k local days
\* before the day today
CreatedDaysAgo(ns, today, k) ==
    {i \in 1..Len(ns) :
        /\ ns[i].createdAt # None
        /\ ns[i].createdAt[1].parses
        /\ today - dayOf(clock, ns[i].createdAt[1].at) = k}

\* C16: the histogram has each note created k days before today, 0 <= k
\* <= 6, in the bucket of that day and no other, today's being the last;
\* notes whose createdAt is missing, unparsable, on a later day or more
\* than 6 days back are in no bucket, so the buckets sum to at most the
\* number of notes.
C16_Histogram ==
    LET ns == notes
        today == dayOf(clock, clock.now)
    IN  /\ createdLineData(ns, clock)
              = [b \in 1..days |->
                    Cardinality(CreatedDaysAgo(ns, today, days - b))]
        /\ Cardinality(UNION {CreatedDaysAgo(ns, today, k) :
                                 k \in 0..(days - 1)}) <= Len(ns)

\* the clocks changed between the day a note was created and today: the
\* note is in the bucket of its day, and a note created seven days back
\* is in none
C16_Witness ==
    LET ns == notes
        counts == createdLineData(ns, clock)
        today == dayOf(clock, clock.now)
    IN  /\ notesFetch = "settled"
        /\ Len(rawNotes) = 2
        /\ clock.shift # 0
        /\ CreatedDaysAgo(ns, today, days) # {}
        /\ \E k \in 1..(days - 1) :
              /\ CreatedDaysAgo(ns, today, k) # {}
              /\ clock.dstDay > today - k
              /\ clock.dstDay <= today
              /\ counts[days - k] = 1

UserIds == {"u1", "u2", "u3"}

\* C17: for every user id the per-user count is the number of notes with
\* that user id, and the row of a user without notes shows 0; a note
\* without user id adds to no user's count and is counted in the other
\* statistics.
C17_PerUserCounts ==
    LET map == notesCountByUser(notes)
        owned(u) == {i \in 1..Len(rawNotes) : rawNotes[i].user_id = Some(u)}
        ownerless == {i \in 1..Len(rawNotes) : rawNotes[i].user_id = None}
    IN  /\ \A u \in UserIds : get(map, u) = Cardinality(owned(u))
        /\ \A j \in 1..Len(filteredUsers) :
              totalNotesOf(filteredUsers[j])
                  = Cardinality(owned(filteredUsers[j]._id))
        /\ \A j \in 1..Len(map) : map[j].k \in UserIds /\ map[j].v > 0
        /\ stats(notes, clock).total
              = Cardinality(ownerless)
                  + Cardinality(UNION {owned(u) : u \in UserIds})

\* the users table with a row showing 1 and a row showing 0, over notes of
\* which one has no user id
C17_Witness ==
    /\ usersSection = "table"
    /\ Len(filteredUsers) = 2
    /\ totalNotesOf(filteredUsers[1]) = 1
    /\ totalNotesOf(filteredUsers[2]) = 0
    /\ Len(rawNotes) = 3
    /\ \E i \in 1..3 : rawNotes[i].user_id = None
    /\ \E i \in 1..3 : rawNotes[i].user_id = Some("u2")

\* both fetches have settled and the page is still there
BothSettled ==
    notesFetch = "settled" /\ usersFetch = "settled" /\ dashMounted
\* a step in which one fetch settles leaves the state of the other alone
SeparateState ==
    /\ notesFetch' # notesFetch => UNCHANGED <<users, loadingUsers, errUsers>>
    /\ usersFetch' # usersFetch
          => UNCHANGED <<rawNotes, loadingNotes, errNotes>>

\* C18: the two fetches keep separate loading and error state, and once
\* both have settled, in whatever order, a failed users fetch leaves the
\* note statistics displayed and a failed notes fetch leaves the users
\* table displayed.
C18_FetchesIndependent ==
    /\ [](BothSettled =>
            /\ ~loadingNotes /\ ~loadingUsers
            /\ (errUsers # None /\ errNotes = None) => statsShown
            /\ (errNotes # None /\ errUsers = None)
                  => usersSection \in {"table", "empty"})
    /\ [][SeparateState]_vars

\* the notes fetch failed, the users fetch delivered a user: the table
\* is displayed next to the error card
C18_Witness ==
    /\ BothSettled
    /\ errNotes # None
    /\ errorsShown
    /\ usersSection = "table"

\* C26: in every state of the dashboard the note statistics are shown
\* exactly when neither fetch is loading and the notes fetch recorded no
\* error; they are never shown while the users fetch (or the notes fetch)
\* is pending, and never together with the loading indicator.
C26_StatsGating ==
    /\ statsShown <=> /\ dashMounted
                      /\ ~loadingNotes /\ ~loadingUsers
                      /\ errNotes = None
    /\ statsShown => usersFetch = "settled" /\ notesFetch = "settled"
    /\ (BothSettled /\ errNotes = None) => statsShown
    /\ ~(statsShown /\ loadingShown)

\* the notes have arrived and the users fetch is pending: the loading
\* indicator is shown and the statistics are not
C26_Witness ==
    /\ dashMounted
    /\ notesFetch = "settled"
    /\ errNotes = None
    /\ rawNotes # <<>>
    /\ usersFetch = "pending"
    /\ loadingShown
    /\ ~statsShown

\* the step is a fetch delivering its data, or failing
NotesResolved == NotesFetchResolves(rawNotes')
NotesRejected == \E m \in {None, errNotes'} : NotesFetchRejects(m)
UsersResolved ==
    \E isArray \in BOOLEAN : UsersFetchResolves(Fetched(isArray, users'))
UsersRejected == \E m \in {None, errUsers'} : UsersFetchRejects(m)

\* C27: while the dashboard stays mounted, a fetch that settles, with data
\* or with a failure, has its loading flag false from then on, and its
\* error is null after it delivered data and a message (not null) after it
\* failed; neither changes once the fetch has settled.
C27_SettledFetchState ==
    /\ []((dashMounted /\ notesFetch = "settled") => ~loadingNotes)
    /\ []((dashMounted /\ usersFetch = "settled") => ~loadingUsers)
    /\ [][dashMounted' =>
            /\ NotesResolved => (errNotes' = None /\ ~loadingNotes')
            /\ NotesRejected => (errNotes' # None /\ ~loadingNotes')
            /\ UsersResolved => (errUsers' = None /\ ~loadingUsers')
            /\ UsersRejected => (errUsers' # None /\ ~loadingUsers')]_vars
    /\ [][/\ notesFetch = "settled" => UNCHANGED <<loadingNotes, errNotes>>
          /\ usersFetch = "settled"
                => UNCHANGED <<loadingUsers, errUsers>>]_vars

\* the notes arrived and the users fetch failed with something that has
\* no message, the page being mounted
C27_Witness ==
    /\ dashMounted
    /\ notesFetch = "settled" /\ usersFetch = "settled"
    /\ ~loadingNotes /\ ~loadingUsers
    /\ rawNotes # <<>>
    /\ errNotes = None
    /\ errUsers = Some("Failed to load users")

\* C19: a result or failure of either fetch that arrives after the page
\* was unmounted is discarded: no data, error or loading state setter of
\* the page is called after teardown.
C19_LateResultsDiscarded == lateSets = {}

\* C20: a note whose body, colors or position is malformed JSON never
\* makes rendering fail, neither in the note card nor on the dashboard.
C20_MalformedNeverThrows ==
    malformed(cardNote) =>
        /\ cardOut # Some("threw")
        /\ dashOut # Some("threw")

\* ------------------------------------------------- failures of the store
\* C22: whenever the store call of a notes handler (list, get, create,
\* update, delete) throws, the handler answers with status 500 and the
\* JSON body {message}, and the request does not stay unanswered.
C22_StoreFailure500 ==
    (req.op \in Lists \cup ById \cup {"add"} /\ req.fail) =>
        /\ res.status = 500
        /\ res.message # ""
        /\ res.notes = <<>>
        /\ sent = <<500>>

\* an update of a stored note met a failing store
C22_Witness ==
    /\ req.op = "update"
    /\ req.fail
    /\ HasId(store, req.id)
    /\ res = ServerError

\* ------------------------------------------------- the counters' order
\* C23: for every note list, search text and current date, createdToday
\* <= createdThisWeek <= total and updatedToday <= total, the week start
\* being never later than today's local midnight.
C23_CountersOrdered ==
    LET s == stats(filteredNotes, clock)
    IN  /\ s.createdToday <= s.createdThisWeek
        /\ s.createdThisWeek <= s.total
        /\ s.updatedToday <= s.total
        /\ startOfWeekMonday(clock) <= startOfToday(clock)

\* under a search that is not blank, in a week in which the clocks
\* changed: no note of today, one of this week, two in all
C23_Witness ==
    LET s == stats(filteredNotes, clock)
    IN  /\ notesFetch = "settled"
        /\ trim(search) # <<>>
        /\ clock.shift # 0
        /\ startOfWeekMonday(clock) < dayStart(clock, clock.dstDay)
        /\ dayStart(clock, clock.dstDay) <= startOfToday(clock)
        /\ s.createdToday = 0
        /\ s.createdThisWeek = 1
        /\ s.updatedToday = 1
        /\ s.total = 2

\* C28: every notes handler sends exactly one response per request on
\* every path (found, not found, store failure): a request for a missing
\* note gets the 404 and nothing after it, and no request stays
\* unanswered.
C28_OneResponse ==
    /\ [](req.op \in Lists \cup ById \cup {"add"} =>
            /\ Len(sent) = 1
            /\ sent[1] = res.status
            /\ res.status \in {200, 201, 404, 500})
    /\ [][(Serves(ById) /\ ~req'.fail /\ ~HasId(store, req'.id))
            => sent' = <<404>>]_vars

\* a delete of a note that is not stored, others being stored: the 404
\* and nothing else
C28_Witness ==
    /\ req.op = "delete"
    /\ ~req.fail
    /\ ~HasId(store, req.id)
    /\ store # <<>>
    /\ sent = <<404>>

\* C29: a notes request answered with 404 or 500 leaves the stored notes
\* exactly as they were before it, and list and get requests leave them
\* unchanged on every outcome.
C29_StoreKeptOnFailure ==
    [][/\ (Serves(Lists \cup ById \cup {"add"})
                /\ res'.status \in {404, 500}) => store' = store
       /\ Serves(Lists \cup {"get"}) => store' = store]_vars

\* a delete of a stored note failed: both notes are still stored
C29_Witness ==
    /\ req.op = "delete"
    /\ req.fail
    /\ res.status = 500
    /\ HasId(store, req.id)
    /\ Len(store) = 2

\* --------------------------------------------------- the search's frame
\* C30: changing the search text changes neither the fetched notes and
\* users nor the 7-day histogram and the per-user note counts, both being
\* derived from all the notes; under a blank or whitespace-only search the
\* statistics cover all the notes.
C30_SearchFrame ==
    /\ [][search' # search =>
            /\ UNCHANGED <<rawNotes, users>>
            /\ createdLineOf(rawNotes', search', clock')
                  = createdLineOf(rawNotes, search, clock)
            /\ countByUserOf(rawNotes') = countByUserOf(rawNotes)]_vars
    /\ [](trim(search) = <<>> =>
            LET ns == notes
                fs == filteredNotes
            IN  /\ fs = ns
                /\ stats(fs, clock) = stats(ns, clock)
                /\ stats(fs, clock).total = Len(rawNotes))

\* a search keeps one of two notes created on different days of the last
\* seven: the histogram has both, and the owner of one has it counted
C30_Witness ==
    LET line == createdLine
    IN  /\ notesFetch = "settled"
        /\ usersFetch = "settled"
        /\ trim(search) # <<>>
        /\ Len(rawNotes) = 2
        /\ Len(filteredNotes) = 1
        /\ \E a, b \in 1..days : a # b /\ line[a] = 1 /\ line[b] = 1
        /\ rawNotes[1].user_id = Some("u1")
        /\ rawNotes[2].user_id = None
        /\ totalNotesOf(UserA) = 1
        /\ totalNotesOf(UserB) = 0

\* ------------------------------------------------------------- cleanBody
\* C21: cleanBody unwraps exactly one level of JSON string encoding: a
\* trimmed input that is the encoding of a string s gives s trimmed (and
\* no more than that when s is an encoding itself), a trimmed input that
\* is not JSON is returned as it is, and null or undefined gives "".
C21_CleanBodyOneLevel ==
    cleanOut # None =>
        LET out == cleanOut[1]
            t == trim(orElse(cleanRaw, <<>>))
        IN  /\ cleanRaw = None => out = <<>>
            /\ cleanRaw # None =>
                /\ \A s \in Decoded \cup {Encoded(d) : d \in Decoded} :
                        t = Encoded(s) => out = trim(s)
                /\ ~JSONparse(t).ok => out = t

\* a body encoded twice and padded came back encoded once
C21_Witness ==
    /\ cleanRaw = Some(<<Space>> \o Encoded(Encoded(<<"h", "i">>)))
    /\ cleanOut = Some(Encoded(<<"h", "i">>))


\* ---------------------------------------------------------- specifications
OffsetNext ==
    \/ CallSetNewOffset
    \/ NextOffsetInput

DragNext ==
    \/ MouseDown
    \/ MouseMove
    \/ MouseUp
    \/ Rerender
    \/ Unmount

ApiNext ==
    \/ ReqGetAllNotes
    \/ ReqGetAllNotesOfUser
    \/ \E id \in Ids, fail \in BOOLEAN : ReqGetNoteById(id, fail)
    \/ \E body \in Patches : ReqAddNote(body, FALSE)
    \/ ReqAddNote(NoFields, TRUE)
    \/ \E id \in Ids, patch \in Patches : ReqUpdateNoteById(id, patch, FALSE)
    \/ \E id \in Ids : ReqUpdateNoteById(id, NoFields, TRUE)
    \/ \E id \in Ids, fail \in BOOLEAN : ReqDeleteNoteById(id, fail)
    \/ Tick

ClientNext ==
    \/ ClientList
    \/ ClientCreate
    \/ \E id \in Ids, fail \in BOOLEAN : ClientRemove(id, fail)
    \/ \E id \in Ids : OtherClientDeletes(id)
    \/ Tick

AuthNext ==
    \/ Authorize
    \/ NextAuthRequest

DashNext ==
    \/ \E data \in ListsOf({RawNote(BodyHi, ColorsRed, PosOk, None, None,
                                      Some("u1"))}, 1) :
          NotesFetchResolves(data)
    \/ \E message \in {None, Some("Network Error")} :
          NotesFetchRejects(message)
    \/ \E data \in {Fetched(TRUE, <<UserA>>), Fetched(TRUE, <<>>),
                     Fetched(FALSE, <<>>)} :
          UsersFetchResolves(data)
    \/ \E message \in {None, Some("Network Error")} :
          UsersFetchRejects(message)
    \/ DashUnmount
    \/ \E text \in Searches : SetSearch(text)

StatsNext ==
    \/ \E data \in ListsOf(ContentNotes, MaxNotes) : NotesFetchResolves(data)
    \/ UsersFetchResolves(Fetched(TRUE, <<UserA, UserB>>))
    \/ \E text \in Searches : SetSearch(text)

CalendarNext ==
    \E data \in ListsOf(DatedNotes, MaxDated) : NotesFetchResolves(data)

SearchNext ==
    \/ \E data \in ListsOf(MixedNotes, MaxDated) : NotesFetchResolves(data)
    \/ UsersFetchResolves(Fetched(TRUE, <<UserA, UserB>>))
    \/ \E text \in Searches \cup {<<Space>>} : SetSearch(text)

ParseNext ==
    \/ RenderNoteCard
    \/ RenderDashboard

CleanNext == CallCleanBody

RoutesNext ==
    \/ \E token \in BOOLEAN, fail \in BOOLEAN :
          Route("GET", 0, NoFields, token, TRUE, fail)
    \/ \E id \in Ids, token \in BOOLEAN, fail \in BOOLEAN :
          Route("GET", id, NoFields, token, TRUE, fail)
    \/ \E body \in Patches, token \in BOOLEAN, valid \in BOOLEAN :
          Route("POST", 0, body, token, valid, FALSE)
    \/ \E id \in Ids, body \in Patches, token \in BOOLEAN, valid \in BOOLEAN :
          Route("PUT", id, body, token, valid, FALSE)
    \/ \E id \in Ids, token \in BOOLEAN, fail \in BOOLEAN :
          Route("DELETE", id, NoFields, token, TRUE, fail)

InitOffset == OffsetInit /\ DragRest /\ ApiInit /\ ClientRest /\ AuthRest
                /\ RouteRest /\ DashRest /\ ParseRest
SpecOffset == InitOffset /\ [][OffsetNext]_vars

InitDrag == DragInit /\ OffsetRest /\ ApiInit /\ ClientRest /\ AuthRest
                /\ RouteRest /\ DashRest /\ ParseRest
SpecDrag == InitDrag /\ [][DragNext]_vars

InitApi == ApiInit /\ ClientRest /\ OffsetRest /\ DragRest /\ AuthRest
                /\ RouteRest /\ DashRest /\ ParseRest
SpecApi == InitApi /\ [][ApiNext]_vars

InitClient == ApiInit /\ ClientRest /\ OffsetRest /\ DragRest /\ AuthRest
                /\ RouteRest /\ DashRest /\ ParseRest
SpecClient == InitClient /\ [][ClientNext]_vars

InitAuth == AuthInit /\ ApiInit /\ ClientRest /\ OffsetRest /\ DragRest
                /\ RouteRest /\ DashRest /\ ParseRest
SpecAuth == InitAuth /\ [][AuthNext]_vars

InitRoutes == ApiInit /\ RouteRest /\ ClientRest /\ OffsetRest /\ DragRest
                /\ AuthRest /\ DashRest /\ ParseRest
SpecRoutes == InitRoutes /\ [][RoutesNext]_vars

InitDash == DashRest /\ ParseRest /\ ApiInit /\ RouteRest /\ ClientRest
                /\ OffsetRest /\ DragRest /\ AuthRest
SpecDash == InitDash /\ [][DashNext]_vars
SpecStats == InitDash /\ [][StatsNext]_vars

InitCalendar == DashInit /\ ParseRest /\ ApiInit /\ RouteRest /\ ClientRest
                /\ OffsetRest /\ DragRest /\ AuthRest
SpecCalendar == InitCalendar /\ [][CalendarNext]_vars
SpecSearch == InitCalendar /\ [][SearchNext]_vars

\* the last day of the week of Clocks, a Saturday
InitFrame == InitCalendar /\ dayOf(clock, clock.now) = 2 * days - 1
SpecFrame == InitFrame /\ [][SearchNext]_vars

InitParse == ParseInit /\ DashRest /\ ApiInit /\ RouteRest /\ ClientRest
                /\ OffsetRest /\ DragRest /\ AuthRest
SpecParse == InitParse /\ [][ParseNext]_vars

InitClean == CleanInit /\ DashRest /\ ApiInit /\ RouteRest /\ ClientRest
                /\ OffsetRest /\ DragRest /\ AuthRest
SpecClean == InitClean /\ [][CleanNext]_vars

====
